---- MODULE Spec2Model ----
(***************************************************************************)
(* A model of bitclient's JSON-RPC core: the Authentication scheme, the     *)
(* RPCClient.Do transport, the result decoders with the error normalizer    *)
(* (handle / stringToMap), and the block operations that resolve a block    *)
(* identifier (hash or height) before a hash-only request.                  *)
(*                                                                         *)
(* Go strings are modelled as sequences of one-character strings, so that   *)
(* prefix tests, splitting and the character scan of stringToMap are        *)
(* computed as the code computes them.                                      *)
(***************************************************************************)
EXTENDS Integers, Sequences, FiniteSets, TLC

VARIABLES
    nErr,      \* normalizer: the error handed to JsonResult/ArrayResult/Result
    nWarn,     \* normalizer: the variadic warning (a sequence of 0 or 1 texts)
    nOut,      \* normalizer: what the call returned, or NoCall
    aAuth,     \* authenticator: the Authentication value (Type, Label)
    aReq,      \* authenticator: the headers of the outgoing request before the call
    aOut,      \* authenticator: what the call returned, or NoCall
    Client,    \* rpc.Client: the package-level client built from the environment, or Nil
    pc,        \* where the caller's goroutine is: idle, do, wait, ret, done, panic
    op,        \* the operation being run and its arguments, or NoCall
    phase,     \* which Do call of the operation is running: lookup or main
    block,     \* the operation's local variable block (the resolved identifier)
    req,       \* the Request handed to the running Do call
    calls,     \* the Requests handed to RPCClient.Do during this invocation
    wire,      \* the HTTP requests handed to the HTTP stack during this invocation
    doRet,     \* what the last Do call returned: (response, error)
    rets,      \* history: for each Do call that returned, what it read and returned
    opRet,     \* what the operation returned: (value, error)
    pIn,       \* a function on its own: the argument it is applied to
    pOut,      \* a function on its own: what it returned, or NoCall
    gpc,       \* concurrent callers: where each goroutine's Do call is
    greq,      \* concurrent callers: the Request each goroutine passed to Do
    gread,     \* concurrent callers: what each goroutine's call read from the HTTP stack
    gret,      \* concurrent callers: what each goroutine's Do call returned
    gwire      \* concurrent callers: the HTTP requests sent, with the goroutine of each

nvars == <<nErr, nWarn, nOut>>
avars == <<aAuth, aReq, aOut>>
rvars == <<Client, pc, op, phase, block, req, calls, wire, doRet, rets, opRet>>
pvars == <<pIn, pOut>>
cvars == <<gpc, greq, gread, gret, gwire>>
vars == <<nvars, avars, rvars, pvars, cvars>>

---------------------------------------------------------------------------
(* Bounds of the model                                                     *)

MaxCodeToks == 1    \* tokens in the <c> of map[code:<c> message:<m>]
MaxMsgToks  == 3    \* tokens in the <m> of map[code:<c> message:<m>]
MaxFreeToks == 4    \* tokens in a free-form error text
MaxLabelLen == 4    \* characters in an authentication label
MaxIdLen == 2       \* characters in a block identifier that is not a 64-character sample

---------------------------------------------------------------------------
(* Strings                                                                 *)

\* Go's nil, and "not called yet"; records, so that they compare with records
Nil == [nil |-> TRUE]
NoCall == [fn |-> "none"]

\* strings.HasPrefix
HasPrefix(s, p) == Len(s) >= Len(p) /\ SubSeq(s, 1, Len(p)) = p

\* strings.HasSuffix
HasSuffix(s, p) == Len(s) >= Len(p) /\ SubSeq(s, Len(s) - Len(p) + 1, Len(s)) = p

\* strings.Contains
Contains(s, p) == \E i \in 1..(Len(s) - Len(p) + 1) : SubSeq(s, i, i + Len(p) - 1) = p

\* strings.TrimPrefix / strings.TrimSuffix: remove one occurrence, if present
TrimPrefix(s, p) == IF HasPrefix(s, p) THEN SubSeq(s, Len(p) + 1, Len(s)) ELSE s
TrimSuffix(s, p) == IF HasSuffix(s, p) THEN SubSeq(s, 1, Len(s) - Len(p)) ELSE s

\* strings.TrimSpace (the only white space of the modelled alphabet is " ")
RECURSIVE TrimSpace(_)
TrimSpace(s) ==
    IF s = <<>> THEN s
    ELSE IF Head(s) = " " THEN TrimSpace(Tail(s))
    ELSE IF s[Len(s)] = " " THEN TrimSpace(SubSeq(s, 1, Len(s) - 1))
    ELSE s

\* strings.ToLower on the modelled alphabet
LowerChar(c) ==
    CASE c = "B" -> "b"
      [] c = "N" -> "n"
      [] c = "F" -> "f"
      [] OTHER   -> c
ToLower(s) == [i \in 1..Len(s) |-> LowerChar(s[i])]

\* the concatenation of a sequence of strings
RECURSIVE Flatten(_)
Flatten(ss) == IF ss = <<>> THEN <<>> ELSE Head(ss) \o Flatten(Tail(ss))

\* all sequences over S of length lo..hi
SeqsOf(S, lo, hi) == UNION {[1..n -> S] : n \in lo..hi}

---------------------------------------------------------------------------
(* Errors: a Go error value is its text and where it was created; two      *)
(* errors are the same value only if both agree.                           *)

Err(text, src) == [text |-> text, src |-> src]

\* errs.Of with a constant message and no arguments
sPercent == <<"%">>
sMalformed == <<"m","a","l","f","o","r","m","e","d"," ","e","r","r","o","r">>
Of(msg, src) == IF Contains(msg, sPercent) THEN Err(sMalformed, src) ELSE Err(msg, src)

\* failure.Of with a format and arguments (package failure is not among the
\* sources): a new error whose message is the formatted text, as errs.Of gives
failureOf(text, src) == Err(text, src)

---------------------------------------------------------------------------
(* The error normalizer: stringToMap and handle                            *)

sMap == <<"m","a","p">>
sMapOpen == <<"m","a","p","[">>
sClose == <<"]">>
sCode == <<"c","o","d","e",":">>
sMessage == <<"m","e","s","s","a","g","e",":">>
kMessage == <<"m","e","s","s","a","g","e">>

\* result[key] = value on a Go map
MapPut(m, k, v) == [x \in (DOMAIN m) \cup {k} |-> IF x = k THEN v ELSE m[x]]

\* the state of stringToMap's loop before the character at (1-based) index i
ScanInit == [result |-> <<>>, currentKey |-> <<>>, currentValue |-> <<>>, inValue |-> FALSE]

\* a loop body that ends a value at every space, without looking ahead for the
\* next "code:" or "message:"
ScanStepNoLookahead(trimmed, i, st) ==
    LET char == trimmed[i]
    IN  IF char = ":" /\ ~st.inValue
        THEN [st EXCEPT !.currentKey = TrimSpace(st.currentValue),
                        !.currentValue = <<>>,
                        !.inValue = TRUE]
        ELSE IF char = " " /\ ~st.inValue
        THEN IF st.currentKey # <<>> /\ Len(st.currentValue) > 0
             THEN [st EXCEPT !.result = MapPut(st.result, st.currentKey, st.currentValue),
                             !.currentValue = <<>>,
                             !.inValue = FALSE]
             ELSE [st EXCEPT !.inValue = FALSE]
        ELSE IF st.inValue /\ char = " "
        THEN [st EXCEPT !.result = MapPut(st.result, st.currentKey, st.currentValue),
                        !.currentValue = <<>>,
                        !.inValue = FALSE]
        ELSE [st EXCEPT !.currentValue = Append(st.currentValue, char)]

\* one iteration of stringToMap's loop
ScanStep(trimmed, i, st) ==
    LET char == trimmed[i]
        rest == SubSeq(trimmed, i + 1, Len(trimmed))
    IN  IF char = ":" /\ ~st.inValue
        THEN [st EXCEPT !.currentKey = TrimSpace(st.currentValue),
                        !.currentValue = <<>>,
                        !.inValue = TRUE]
        ELSE IF char = " " /\ ~st.inValue
        THEN IF st.currentKey # <<>> /\ Len(st.currentValue) > 0
             THEN [st EXCEPT !.result = MapPut(st.result, st.currentKey, st.currentValue),
                             !.currentValue = <<>>,
                             !.inValue = FALSE]
             ELSE [st EXCEPT !.inValue = FALSE]
        ELSE IF st.inValue /\ char = " " /\ (Contains(rest, sCode) \/ Contains(rest, sMessage))
        THEN [st EXCEPT !.result = MapPut(st.result, st.currentKey, st.currentValue),
                        !.currentValue = <<>>,
                        !.inValue = FALSE]
        ELSE [st EXCEPT !.currentValue = Append(st.currentValue, char)]

RECURSIVE ScanFrom(_, _, _)
ScanFrom(trimmed, i, st) ==
    IF i > Len(trimmed) THEN st ELSE ScanFrom(trimmed, i + 1, ScanStep(trimmed, i, st))

\* stringToMap: the textual map parsed into a Go map (a function on its keys)
stringToMap(s) ==
    LET trimmed == TrimPrefix(TrimSuffix(s, sClose), sMapOpen)
        st == ScanFrom(trimmed, 1, ScanInit)
    IN  IF st.currentKey # <<>> /\ Len(st.currentValue) > 0
        THEN MapPut(st.result, st.currentKey, st.currentValue)
        ELSE st.result

\* a message text that drops the caller's warning
HandleTextWithoutWarning(message, warning) == ToLower(message)

\* the text handle formats: "%s (%s)" with a warning, "%v" without
HandleText(message, warning) ==
    IF Len(warning) > 0
    THEN ToLower(message) \o <<" ", "(">> \o warning[1] \o <<")">>
    ELSE ToLower(message)

\* handle[T]: a (value, error) pair; the value is always nil
handle(err, warning) ==
    IF ~HasPrefix(err.text, sMap)
    THEN [value |-> Nil, err |-> err]
    ELSE LET m == stringToMap(err.text)
         IN  IF kMessage \in DOMAIN m
             THEN [value |-> Nil, err |-> failureOf(HandleText(m[kMessage], warning), "handle")]
             ELSE [value |-> Nil, err |-> err]

---------------------------------------------------------------------------
(* Result decoding.  A raw `result` payload is [k |-> kind, v |-> content]: *)
(* k is "absent" (no bytes), "null", "str", "num", "bool", "obj", "arr"     *)
(* (an array of objects), "arrnum" (an array of scalars) or "arrnull" (an   *)
(* array of nulls).                                                         *)

Raw(k, v) == [k |-> k, v |-> v]

sFailedProcess == <<"f","a","i","l","e","d"," ","t","o"," ","p","r","o","c","e","s","s"," ","r","e","s","u","l","t",":"," ">>
sJsonEnd == <<"u","n","e","x","p","e","c","t","e","d"," ","e","n","d"," ","o","f"," ","J","S","O","N"," ","i","n","p","u","t">>
sJsonCannot == <<"j","s","o","n",":"," ","c","a","n","n","o","t"," ","u","n","m","a","r","s","h","a","l">>

\* the text of encoding/json's error for a payload that does not decode
JsonErrText(raw) == IF raw.k = "absent" THEN sJsonEnd ELSE sJsonCannot

\* json.Unmarshal(raw, &Json{}): an object decodes, null leaves the empty map
DecodesAsObject(raw) == raw.k \in {"obj", "null"}

\* json.Unmarshal(raw, &Array{}): an array of objects decodes, null leaves the empty
\* slice, and a null element of an array leaves a nil map
DecodesAsArray(raw) == raw.k \in {"arr", "null", "arrnull"}

\* Response.UnmarshalResult
UnmarshalResult(r) ==
    IF DecodesAsObject(r.Result)
    THEN [value |-> [type |-> "Json", of |-> r.Result], err |-> Nil]
    ELSE [value |-> Nil, err |-> failureOf(sFailedProcess \o JsonErrText(r.Result), "UnmarshalResult")]

\* Response.UnmarshalArray
UnmarshalArray(r) ==
    IF DecodesAsArray(r.Result)
    THEN [value |-> [type |-> "Array", of |-> r.Result], err |-> Nil]
    ELSE [value |-> Nil, err |-> failureOf(sFailedProcess \o JsonErrText(r.Result), "UnmarshalArray")]

\* a JsonResult that hands back the transport's error next to the decoded value
JsonResultKeepingError(r, err, warning) ==
    IF r # Nil THEN [value |-> UnmarshalResult(r).value, err |-> err] ELSE handle(err, warning)

\* JsonResult(r, err, warning...)
JsonResult(r, err, warning) == IF r # Nil THEN UnmarshalResult(r) ELSE handle(err, warning)

\* ArrayResult(r, err, warning...)
ArrayResult(r, err, warning) == IF r # Nil THEN UnmarshalArray(r) ELSE handle(err, warning)

\* blocks.Result(r, err): the normalizer of the blocks package (no warning)
Result(r, err) ==
    IF r # Nil THEN [value |-> r, err |-> err]
    ELSE IF ~HasPrefix(err.text, sMap) THEN [value |-> Nil, err |-> err]
    ELSE LET m == stringToMap(err.text)
         IN  IF kMessage \in DOMAIN m
             THEN [value |-> Nil, err |-> Err(ToLower(m[kMessage]), "Result")]
             ELSE [value |-> Nil, err |-> err]

---------------------------------------------------------------------------
(* Authentication (rpc/auth.go)                                            *)

AuthenticationTypeKey == "api-key"
AuthenticationTypeCredentials == "user:password"

sColon == <<":">>
sInvalidAuthType == <<"i","n","v","a","l","i","d"," ","a","u","t","h","e","n","t","i","c","a","t","i","o","n"," ","t","y","p","e">>
sLabelEmpty == <<"a","u","t","h","e","n","t","i","c","a","t","i","o","n"," ","l","a","b","e","l"," ","c","a","n","n","o","t"," ","b","e"," ","e","m","p","t","y">>
sCredFormat == <<"c","r","e","d","e","n","t","i","a","l","s"," ","m","u","s","t"," ","b","e"," ","i","n"," ","f","o","r","m","a","t"," ","'","u","s","e","r","n","a","m","e",":","p","a","s","s","w","o","r","d","'">>
sCredExactly == <<"c","r","e","d","e","n","t","i","a","l","s"," ","m","u","s","t"," ","c","o","n","t","a","i","n"," ","e","x","a","c","t","l","y"," ","a"," ","'",":","'"," ","b","e","t","w","e","e","n"," ","'","u","s","e","r","n","a","m","e","'"," ","a","n","d"," ","'","p","a","s","s","w","o","r","d","'">>
sCredEmpty == <<"u","s","e","r","n","a","m","e"," ","a","n","d"," ","p","a","s","s","w","o","r","d"," ","c","a","n","n","o","t"," ","b","e"," ","e","m","p","t","y">>
sUnsupported == <<"u","n","s","u","p","p","o","r","t","e","d"," ","a","u","t","h","e","n","t","i","c","a","t","i","o","n"," ","t","y","p","e">>
sBearer == <<"B","e","a","r","e","r"," ">>

\* rpc.Bearer
Bearer(token) == sBearer \o token

\* the index of the first ":" of s, 0 if there is none
RECURSIVE IndexColon(_, _)
IndexColon(s, i) ==
    IF i > Len(s) THEN 0 ELSE IF s[i] = ":" THEN i ELSE IndexColon(s, i + 1)

\* a split at the last ":" instead of the first
RECURSIVE LastIndexColon(_, _)
LastIndexColon(s, i) ==
    IF i < 1 THEN 0 ELSE IF s[i] = ":" THEN i ELSE LastIndexColon(s, i - 1)
SplitAtLastColon(s) ==
    LET i == LastIndexColon(s, Len(s))
    IN  IF i = 0 THEN <<s>> ELSE <<SubSeq(s, 1, i - 1), SubSeq(s, i + 1, Len(s))>>

\* strings.SplitN(s, ":", 2): at most two parts, cut at the first ":"
SplitN2(s) ==
    LET i == IndexColon(s, 1)
    IN  IF i = 0 THEN <<s>> ELSE <<SubSeq(s, 1, i - 1), SubSeq(s, i + 1, Len(s))>>

\* Authentication.Validate: nil, or the validation error
Validate(a) ==
    IF a.Type # AuthenticationTypeCredentials /\ a.Type # AuthenticationTypeKey
    THEN Of(sInvalidAuthType, "Validate")
    ELSE IF a.Label = <<>>
    THEN Of(sLabelEmpty, "Validate")
    ELSE IF a.Type = AuthenticationTypeCredentials
    THEN IF ~Contains(a.Label, sColon)
         THEN Of(sCredFormat, "Validate")
         ELSE LET parts == SplitN2(a.Label)
              IN  IF Len(parts) # 2
                  THEN Of(sCredExactly, "Validate")
                  ELSE IF parts[1] = <<>> \/ parts[2] = <<>>
                  THEN Of(sCredEmpty, "Validate")
                  ELSE Nil
    ELSE Nil

\* Authentication.GetCredentials: (username, password); indexing parts[1] of a
\* one-element split is a run-time panic
Panic == [panic |-> TRUE]
GetCredentials(a) ==
    IF Validate(a) # Nil
    THEN [username |-> <<>>, password |-> <<>>]
    ELSE LET parts == SplitN2(a.Label)
         IN  IF Len(parts) < 2 THEN Panic
             ELSE [username |-> parts[1], password |-> parts[2]]

\* http.Header.Set's value: a header carrying the text v
HeaderText(v) == [text |-> v]

\* http.Request.SetBasicAuth: the Authorization header "Basic " + base64(username:password)
BasicAuth(username, password) == [scheme |-> "Basic", username |-> username, password |-> password]

\* Authentication.Setup on the headers h of a request: the error and the headers after
Setup(a, h) ==
    IF Validate(a) # Nil
    THEN [err |-> Validate(a), header |-> h]
    ELSE IF a.Type = AuthenticationTypeKey
    THEN [err |-> Nil, header |-> [h EXCEPT !.Authorization = HeaderText(Bearer(a.Label))]]
    ELSE IF a.Type = AuthenticationTypeCredentials
    THEN LET c == GetCredentials(a)
         IN  [err |-> Nil, header |-> [h EXCEPT !.Authorization = BasicAuth(c.username, c.password)]]
    ELSE [err |-> Of(sUnsupported, "Setup"), header |-> h]

\* the headers of a fresh http.Request, and of one that already carries a header
NoHeader == [Authorization |-> Nil, ContentType |-> Nil]
StaleHeader == [Authorization |-> HeaderText(Bearer(<<"o", "l", "d">>)), ContentType |-> Nil]

---------------------------------------------------------------------------
(* Numbers and text (strconv)                                              *)

Digits == <<"0", "1", "2", "3", "4", "5", "6", "7", "8", "9">>
IsDigit(c) == \E d \in 1..10 : Digits[d] = c
DigitVal(c) == (CHOOSE d \in 1..10 : Digits[d] = c) - 1

RECURSIVE DigitsVal(_, _)
DigitsVal(s, acc) == IF s = <<>> THEN acc ELSE DigitsVal(Tail(s), acc * 10 + DigitVal(Head(s)))

\* strconv.Atoi for values inside the int range: an optional sign and one or more
\* decimal digits; anything else is an error and the value 0
Atoi(s) ==
    LET signed == s # <<>> /\ Head(s) \in {"+", "-"}
        body == IF signed THEN Tail(s) ELSE s
    IN  IF body = <<>> \/ \E i \in 1..Len(body) : ~IsDigit(body[i])
        THEN [n |-> 0, err |-> TRUE]
        ELSE [n |-> IF signed /\ Head(s) = "-" THEN 0 - DigitsVal(body, 0) ELSE DigitsVal(body, 0),
              err |-> FALSE]

\* fmt's %d
RECURSIVE ItoaNat(_)
ItoaNat(n) == IF n < 10 THEN <<Digits[n + 1]>> ELSE ItoaNat(n \div 10) \o <<Digits[(n % 10) + 1]>>
Itoa(n) == IF n < 0 THEN <<"-">> \o ItoaNat(0 - n) ELSE ItoaNat(n)

---------------------------------------------------------------------------
(* Requests, responses and the daemon's replies                            *)

Identifier == "bitclient"
Version2 == "2.0"
ContentTypeApplicationJson == <<"a","p","p","l","i","c","a","t","i","o","n","/","j","s","o","n">>
StatusOK == 200

\* positional parameters: each a tagged value
PStr(v) == [t |-> "str", v |-> v]
PInt(v) == [t |-> "int", v |-> v]
PBool(v) == [t |-> "bool", v |-> v]
PList(v) == [t |-> "list", v |-> v]
PChan == [t |-> "chan"]    \* a value encoding/json cannot serialize

Request(method, params) == [ID |-> Identifier, Version |-> Version2, Method |-> method, Params |-> params]

\* the envelope's `error`: nil (null or absent), or a JSON value kept as `any`
EStr(v) == [t |-> "str", v |-> v]
EMap(pairs) == [t |-> "map", v |-> pairs]

\* fmt's %v of a map[string]any: map[k1:v1 k2:v2], the keys in sorted order
RECURSIVE FmtPairs(_)
FmtPairs(pairs) ==
    IF pairs = <<>> THEN <<>>
    ELSE Head(pairs)[1] \o sColon \o Head(pairs)[2]
         \o (IF Len(pairs) > 1 THEN <<" ">> ELSE <<>>) \o FmtPairs(Tail(pairs))

\* fmt's %v of the envelope's error value
FmtV(e) == IF e.t = "map" THEN sMapOpen \o FmtPairs(e.v) \o sClose ELSE e.v

sFailedSerialize == <<"f","a","i","l","e","d"," ","t","o"," ","s","e","r","i","a","l","i","z","e"," ","r","e","q","u","e","s","t",":"," ">>
sFailedSetup == <<"f","a","i","l","e","d"," ","t","o"," ","s","e","t"," ","u","p"," ","h","t","t","p"," ","r","e","q","u","e","s","t",":"," ">>
sFailedSend == <<"f","a","i","l","e","d"," ","t","o"," ","s","e","n","d"," ","h","t","t","p"," ","r","e","q","u","e","s","t",":"," ">>
sFailedRead == <<"f","a","i","l","e","d"," ","t","o"," ","r","e","a","d"," ","h","t","t","p"," ","r","e","s","p","o","n","s","e",":"," ">>
sStatus == <<"s","e","r","v","e","r"," ","r","e","s","p","o","n","d","e","d"," ","w","i","t","h"," ","s","t","a","t","u","s"," ","c","o","d","e"," ">>
sFailedDeser == <<"f","a","i","l","e","d"," ","t","o"," ","d","e","s","e","r","i","a","l","i","z","e"," ","r","e","s","p","o","n","s","e",":"," ">>
sNetErr == <<"E","O","F">>
sParseErr == <<"m","i","s","s","i","n","g"," ","p","r","o","t","o","c","o","l"," ","s","c","h","e","m","e">>
sUnsupportedType == <<"j","s","o","n",":"," ","u","n","s","u","p","p","o","r","t","e","d"," ","t","y","p","e">>

\* url.Parse's scheme: the text before the first ":"; a URL that starts with ":"
\* does not parse (missing protocol scheme)
UrlParse(u) ==
    LET i == IndexColon(u, 1)
    IN  IF i = 1 THEN [err |-> TRUE, Scheme |-> <<>>]
        ELSE IF i = 0 THEN [err |-> FALSE, Scheme |-> <<>>]
        ELSE [err |-> FALSE, Scheme |-> SubSeq(u, 1, i - 1)]

sHttp == <<"h","t","t","p">>
sHttps == <<"h","t","t","p","s">>
sUrlEmpty == <<"U","R","L"," ","c","a","n","n","o","t"," ","b","e"," ","e","m","p","t","y">>
sUrlInvalid == <<"i","n","v","a","l","i","d"," ","U","R","L",":"," ","m","u","s","t"," ","b","e"," ","a"," ","v","a","l","i","d"," ","H","T","T","P","/","H","T","T","P","S"," ","U","R","L">>

\* rpc.New: (client, error)
New(uri, authentication) ==
    IF uri = <<>> THEN [client |-> Nil, err |-> Of(sUrlEmpty, "New")]
    ELSE IF UrlParse(uri).err \/ ~HasPrefix(UrlParse(uri).Scheme, sHttp)
    THEN [client |-> Nil, err |-> Of(sUrlInvalid, "New")]
    ELSE IF Validate(authentication) # Nil
    THEN [client |-> Nil, err |-> Validate(authentication)]
    ELSE [client |-> [URL |-> uri, Authentication |-> authentication], err |-> Nil]

\* the package-level Client: built from the environment without validation, nil
\* when a variable is missing
ClientFromEnv(e) ==
    IF e.RPC_URL = <<>> \/ e.RPC_AUTH_TYPE = "" \/ e.RPC_AUTH_LABEL = <<>>
    THEN Nil
    ELSE [URL |-> e.RPC_URL,
          Authentication |-> [Type |-> e.RPC_AUTH_TYPE, Label |-> e.RPC_AUTH_LABEL]]

\* a first half of Do that leaves the Content-Type header unset
DoPrepareWithoutContentType(c, request) ==
    IF \E i \in 1..Len(request.Params) : request.Params[i] = PChan
    THEN [to |-> "ret", err |-> Err(sFailedSerialize \o sUnsupportedType, "Do")]
    ELSE IF c = Nil
    THEN [to |-> "panic"]
    ELSE IF UrlParse(c.URL).err
    THEN [to |-> "ret", err |-> Err(sFailedSetup \o sParseErr, "Do")]
    ELSE LET su == Setup(c.Authentication, NoHeader)
         IN  IF su.err # Nil
             THEN [to |-> "ret", err |-> su.err]
             ELSE [to |-> "wait",
                   http |-> [method |-> "POST", url |-> c.URL, body |-> request,
                             header |-> su.header]]

\* a first half of Do that sends although Setup returned an error
DoPrepareIgnoringSetup(c, request) ==
    IF \E i \in 1..Len(request.Params) : request.Params[i] = PChan
    THEN [to |-> "ret", err |-> Err(sFailedSerialize \o sUnsupportedType, "Do")]
    ELSE IF c = Nil
    THEN [to |-> "panic"]
    ELSE IF UrlParse(c.URL).err
    THEN [to |-> "ret", err |-> Err(sFailedSetup \o sParseErr, "Do")]
    ELSE [to |-> "wait",
          http |-> [method |-> "POST", url |-> c.URL, body |-> request,
                    header |-> [Setup(c.Authentication, NoHeader).header EXCEPT
                                  !.ContentType = HeaderText(ContentTypeApplicationJson)]]]

\* RPCClient.Do up to the send (serialize, build the request, authenticate):
\* the HTTP request to send, the error returned early, or a nil-receiver panic
DoPrepare(c, request) ==
    IF \E i \in 1..Len(request.Params) : request.Params[i] = PChan
    THEN [to |-> "ret", err |-> Err(sFailedSerialize \o sUnsupportedType, "Do")]
    ELSE IF c = Nil
    THEN [to |-> "panic"]
    ELSE IF UrlParse(c.URL).err
    THEN [to |-> "ret", err |-> Err(sFailedSetup \o sParseErr, "Do")]
    ELSE LET su == Setup(c.Authentication, NoHeader)
         IN  IF su.err # Nil
             THEN [to |-> "ret", err |-> su.err]
             ELSE [to |-> "wait",
                   http |-> [method |-> "POST", url |-> c.URL, body |-> request,
                             header |-> [su.header EXCEPT
                                           !.ContentType = HeaderText(ContentTypeApplicationJson)]]]

\* a second half of Do that decodes the envelope before it looks at the status
DoFinishDecodingFirst(reply) ==
    IF reply.env # Nil /\ reply.env.Error # Nil
    THEN [resp |-> Nil, err |-> Err(FmtV(reply.env.Error), "Do")]
    ELSE IF reply.status # StatusOK
    THEN [resp |-> Nil, err |-> Err(sStatus \o Itoa(reply.status) \o <<":", " ">> \o reply.bytes, "Do")]
    ELSE IF reply.env = Nil
    THEN [resp |-> Nil, err |-> Err(sFailedDeser \o sJsonCannot, "Do")]
    ELSE [resp |-> reply.env, err |-> Nil]

\* a second half of Do that returns the envelope together with the envelope's error
DoFinishKeepingEnvelope(reply) ==
    IF reply.status # StatusOK
    THEN [resp |-> Nil, err |-> Err(sStatus \o Itoa(reply.status) \o <<":", " ">> \o reply.bytes, "Do")]
    ELSE IF reply.env = Nil
    THEN [resp |-> Nil, err |-> Err(sFailedDeser \o sJsonCannot, "Do")]
    ELSE IF reply.env.Error # Nil
    THEN [resp |-> reply.env, err |-> Err(FmtV(reply.env.Error), "Do")]
    ELSE [resp |-> reply.env, err |-> Nil]

\* RPCClient.Do after the reply was read: the status check, the envelope decoding
\* and the envelope's error.  A reply is [status, bytes, env]: env is the decoded
\* envelope [ID, Error, Result], or Nil when the bytes are no JSON envelope.
DoFinish(reply) ==
    IF reply.status # StatusOK
    THEN [resp |-> Nil, err |-> Err(sStatus \o Itoa(reply.status) \o <<":", " ">> \o reply.bytes, "Do")]
    ELSE IF reply.env = Nil
    THEN [resp |-> Nil, err |-> Err(sFailedDeser \o sJsonCannot, "Do")]
    ELSE IF reply.env.Error # Nil
    THEN [resp |-> Nil, err |-> Err(FmtV(reply.env.Error), "Do")]
    ELSE [resp |-> reply.env, err |-> Nil]

---------------------------------------------------------------------------
(* Block operations (blocks/blocks.go)                                     *)

HashLen == 64
HexChars == {"0", "1", "2", "3", "4", "5", "6", "7", "8", "9",
             "a", "b", "c", "d", "e", "f", "A", "B", "C", "D", "E", "F"}

\* a check of the length alone
IsBlockHashInvalidByLength(blockhash) == Len(blockhash) # HashLen

\* IsBlockHashInvalid: not 64 long, or not matching ^[0-9a-fA-F]{64}$
IsBlockHashInvalid(blockhash) ==
    Len(blockhash) # HashLen
    \/ ~(Len(blockhash) = HashLen /\ \A i \in 1..Len(blockhash) : blockhash[i] \in HexChars)

sInvalidVerbosity == <<"i","n","v","a","l","i","d"," ","v","e","r","b","o","s","i","t","y"," ","l","e","v","e","l"," ","(">>
sValidRange == <<")",","," ","v","a","l","i","d"," ","r","a","n","g","e"," ","i","s"," ","0","-","3">>
sBlockMust == <<"b","l","o","c","k"," ","m","u","s","t"," ","b","e"," ","a"," ","v","a","l","i","d"," ","b","l","o","c","k"," ","h","a","s","h"," ","o","r"," ","a"," ","n","u","m","e","r","i","c"," ","h","e","i","g","h","t">>
sExtended == <<"e","x","t","e","n","d","e","d">>
sFilterWarning == <<"m","a","y","b","e"," ","i","t","'","s"," ","n","e","e","d","e","d"," ","t","o"," ","a","c","t","i","v","a","t","e"," ","c","o","m","p","a","c","t"," ","b","l","o","c","k"," ","f","i","l","t","e","r"," ","s","t","a","r","t","i","n","g"," ","b","i","t","c","o","i","n","d"," ","w","i","t","h"," ","t","h","e"," ","-","b","l","o","c","k","f","i","l","t","e","r","i","n","d","e","x","=","b","a","s","i","c","/","-","b","l","o","c","k","f","i","l","t","e","r","i","n","d","e","x"," ","f","l","a","g">>

\* a range check with the upper limit off by one
VerbosityFromUpTo4(i) ==
    IF i < 0 \/ i > 4
    THEN [v |-> 0, err |-> Err(sInvalidVerbosity \o Itoa(i) \o sValidRange, "VerbosityFrom")]
    ELSE [v |-> i, err |-> Nil]

\* VerbosityFrom: (level, error)
VerbosityFrom(i) ==
    IF i < 0 \/ i > 3
    THEN [v |-> 0, err |-> Err(sInvalidVerbosity \o Itoa(i) \o sValidRange, "VerbosityFrom")]
    ELSE [v |-> i, err |-> Nil]

\* the getblockhash request GetBlockHash(height) builds
LookupRequest(height) == Request("getblockhash", <<PInt(height)>>)

\* GetBlockHash after its Do call returned: (hash, error)
GetBlockHashFinish(d) ==
    IF d.resp = Nil \/ d.err # Nil THEN [hash |-> <<>>, err |-> d.err]
    ELSE IF d.resp.Result.k = "str" THEN [hash |-> d.resp.Result.v, err |-> Nil]
    ELSE IF d.resp.Result.k = "null" THEN [hash |-> <<>>, err |-> Nil]
    ELSE [hash |-> d.resp.Result.v, err |-> Err(JsonErrText(d.resp.Result), "json")]

\* a hash-only request built from the identifier as given, not from the resolved hash
MainRequestUnresolved(o, blk) ==
    CASE o.name = "GetBlock" -> Request("getblock", <<PStr(o.block), PInt(o.verbosity)>>)
      [] o.name = "GetBlockFilter" -> Request("getblockfilter", <<PStr(o.block), PStr(sExtended)>>)
      [] o.name = "GetBlockHeader" ->
            Request("getblockheader",
                    <<PStr(o.block), PBool(IF Len(o.verbose) > 0 THEN o.verbose[1] ELSE TRUE)>>)
      [] o.name = "GetBlockStats" ->
            Request("getblockstats",
                    <<PStr(o.block)>> \o (IF Len(o.stats) > 0 THEN <<PList(o.stats)>> ELSE <<>>))

\* the hash-only request an operation builds once block holds the hash
MainRequest(o, blk) ==
    CASE o.name = "GetBlock" -> Request("getblock", <<PStr(blk), PInt(o.verbosity)>>)
      [] o.name = "GetBlockFilter" -> Request("getblockfilter", <<PStr(blk), PStr(sExtended)>>)
      [] o.name = "GetBlockHeader" ->
            Request("getblockheader",
                    <<PStr(blk), PBool(IF Len(o.verbose) > 0 THEN o.verbose[1] ELSE TRUE)>>)
      [] o.name = "GetBlockStats" ->
            Request("getblockstats",
                    <<PStr(blk)>> \o (IF Len(o.stats) > 0 THEN <<PList(o.stats)>> ELSE <<>>))

\* rpc.GetMemoryInfo: the getmemoryinfo request; a mode that is neither "stats" nor
\* "mallocinfo" is left out of the params
GetMemoryInfoRequest(mode) ==
    Request("getmemoryinfo",
            IF Len(mode) > 0 /\ (mode[1] = <<"s","t","a","t","s">>
                                 \/ mode[1] = <<"m","a","l","l","o","c","i","n","f","o">>)
            THEN <<PStr(mode[1])>>
            ELSE <<>>)

\* rpc.LoggingProcedure: the logging request; each list is appended only when it is
\* not empty
LoggingRequest(include, exclude) ==
    Request("logging",
            (IF Len(include) > 0 THEN <<PList(include)>> ELSE <<>>)
            \o (IF Len(exclude) > 0 THEN <<PList(exclude)>> ELSE <<>>))

sSubnetMust == <<"b","a","n","'","s"," ","s","u","b","n","e","t"," ","m","u","s","t"," ","b","e"," ","p","r","o","v","i","d","e","d">>

\* network.SetBan: the setban request [subnet, "add", time, absolute]
SetBanRequest(ban) ==
    Request("setban",
            <<PStr(ban.Subnet), PStr(<<"a","d","d">>), PInt(ban.Time), PBool(ban.Absolute)>>)

\* network.Unban: the setban request [subnet, "remove"]
UnbanRequest(subnet) ==
    Request("setban", <<PStr(subnet), PStr(<<"r","e","m","o","v","e">>)>>)

\* what an operation returns once its last Do call returned d
OpResult(o, d) ==
    CASE o.name \in {"GetBlock", "GetBlockHeader", "Do"} -> [value |-> d.resp, err |-> d.err]
      [] o.name = "GetBlockFilter" -> JsonResult(d.resp, d.err, <<sFilterWarning>>)
      [] o.name \in {"GetBlockStats", "GetMemoryInfo", "LoggingProcedure"} ->
            JsonResult(d.resp, d.err, <<>>)
      [] o.name = "ListBanned" -> ArrayResult(d.resp, d.err, <<>>)
      [] o.name \in {"SetBan", "Unban"} -> [value |-> Nil, err |-> d.err]
      [] o.name = "GetBlockHash" ->
            [value |-> [hash |-> GetBlockHashFinish(d).hash], err |-> GetBlockHashFinish(d).err]

\* the client an operation calls Do on: the package-level Client, or the receiver
Via(o) == IF o.name = "Do" THEN o.c ELSE Client

\* nothing running: the state between two invocations
RpcIdle ==
    /\ pc = "idle" /\ op = NoCall /\ phase = "none" /\ block = <<>> /\ req = Nil
    /\ calls = <<>> /\ wire = <<>> /\ doRet = Nil /\ rets = <<>> /\ opRet = Nil

---------------------------------------------------------------------------
(* The authenticator on its own: every Authentication with a short label,  *)
(* and Validate, GetCredentials or Setup called on it.                     *)

AuthTypes == {AuthenticationTypeKey, AuthenticationTypeCredentials, "", "basic"}
LabelChars == {"a", "s", ":"}
Labels == SeqsOf(LabelChars, 0, MaxLabelLen)

NormIdle == nErr = Nil /\ nWarn = <<>> /\ nOut = NoCall
AuthIdle == aAuth = Nil /\ aReq = NoHeader /\ aOut = NoCall
PureIdle == pIn = Nil /\ pOut = NoCall
MaxGoroutines == 2  \* goroutines that call into one client at the same time
Goroutines == 1..MaxGoroutines
ConcIdle ==
    /\ gpc = [g \in Goroutines |-> "idle"]
    /\ greq = [g \in Goroutines |-> Nil]
    /\ gread = [g \in Goroutines |-> Nil]
    /\ gret = [g \in Goroutines |-> Nil]
    /\ gwire = <<>>

AuthInit ==
    /\ aAuth \in [Type : AuthTypes, Label : Labels]
    /\ aReq \in {NoHeader, StaleHeader}
    /\ aOut = NoCall
    /\ NormIdle
    /\ Client = Nil /\ RpcIdle
    /\ PureIdle /\ ConcIdle

CallValidate ==
    /\ aOut = NoCall
    /\ aOut' = [fn |-> "Validate", err |-> Validate(aAuth)]
    /\ UNCHANGED <<aAuth, aReq, nvars, rvars, pvars, cvars>>

CallGetCredentials ==
    /\ aOut = NoCall
    /\ aOut' = [fn |-> "GetCredentials", ret |-> GetCredentials(aAuth)]
    /\ UNCHANGED <<aAuth, aReq, nvars, rvars, pvars, cvars>>

CallSetup ==
    /\ aOut = NoCall
    /\ aOut' = [fn |-> "Setup", err |-> Setup(aAuth, aReq).err, header |-> Setup(aAuth, aReq).header]
    /\ UNCHANGED <<aAuth, aReq, nvars, rvars, pvars, cvars>>

AuthNext == CallValidate \/ CallGetCredentials \/ CallSetup

SpecAuth == AuthInit /\ [][AuthNext]_vars

---------------------------------------------------------------------------
(* The normalizer on its own: an error text drawn from bounded families,   *)
(* handed with a nil response to JsonResult, ArrayResult or blocks.Result. *)

\* tokens of the <c> and <m> of a daemon-shaped text map[code:<c> message:<m>]
CodeVocab == {<<"5">>, <<":">>, <<" ">>}
MsgVocab == {<<"B">>, <<" ">>, <<":">>, sClose, sCode, sMessage}

CodeTexts == {Flatten(ts) : ts \in SeqsOf(CodeVocab, 0, MaxCodeToks)}
MsgTexts == {Flatten(ts) : ts \in SeqsOf(MsgVocab, 0, MaxMsgToks)}

\* fmt's %v of a Go map with the keys code and message
ShapedText(c, m) == sMapOpen \o sCode \o c \o <<" ">> \o sMessage \o m \o sClose

ShapedTexts == {ShapedText(c, m) : c \in CodeTexts, m \in MsgTexts}

\* free-form texts: a prefix and a short sequence of tokens
FreePrefixes == {sMapOpen, sMap, <<>>, <<"B">>}
FreeVocab == {sCode, sMessage, <<" ">>, <<":">>, sClose, <<"B">>}
FreeTexts == {p \o Flatten(ts) : p \in FreePrefixes, ts \in SeqsOf(FreeVocab, 0, MaxFreeToks)}

sWarning == <<"m","a","y","b","e">>
Warnings == {<<>>, <<sWarning>>}

NormInit ==
    /\ nErr \in {Err(t, "caller") : t \in ShapedTexts \cup FreeTexts}
    /\ nWarn \in Warnings
    /\ nOut = NoCall
    /\ AuthIdle
    /\ Client = Nil /\ RpcIdle
    /\ PureIdle /\ ConcIdle

CallJsonResult ==
    /\ nOut = NoCall
    /\ nOut' = [fn |-> "JsonResult", ret |-> JsonResult(Nil, nErr, nWarn)]
    /\ UNCHANGED <<nErr, nWarn, avars, rvars, pvars, cvars>>

CallArrayResult ==
    /\ nOut = NoCall
    /\ nOut' = [fn |-> "ArrayResult", ret |-> ArrayResult(Nil, nErr, nWarn)]
    /\ UNCHANGED <<nErr, nWarn, avars, rvars, pvars, cvars>>

CallResult ==
    /\ nOut = NoCall
    /\ nOut' = [fn |-> "Result", ret |-> Result(Nil, nErr)]
    /\ UNCHANGED <<nErr, nWarn, avars, rvars, pvars, cvars>>

\* GetBlockFilter's return statement after Do returned (nil, nErr)
CallGetBlockFilterReturn ==
    /\ nOut = NoCall
    /\ nOut' = [fn |-> "GetBlockFilter",
                ret |-> OpResult([name |-> "GetBlockFilter"], [resp |-> Nil, err |-> nErr])]
    /\ UNCHANGED <<nErr, nWarn, avars, rvars, pvars, cvars>>

NormNext == CallJsonResult \/ CallArrayResult \/ CallResult \/ CallGetBlockFilterReturn

SpecNorm == NormInit /\ [][NormNext]_vars

---------------------------------------------------------------------------
(* The client at work: one caller invokes an operation, every Do call sends *)
(* at most one HTTP request and blocks until the daemon's reply (or a       *)
(* failure) arrives, and the operation returns.                             *)

RECURSIVE Rep(_, _)
Rep(c, n) == IF n = 0 THEN <<>> ELSE <<c>> \o Rep(c, n - 1)

\* 64-character samples and their near misses
HashA == Rep("a", HashLen)
HashUpper == <<"F">> \o Rep("0", HashLen - 1)
HashShort == Rep("a", HashLen - 1)
HashLong == Rep("a", HashLen + 1)
HashNotHex == Rep("a", HashLen - 1) \o <<"g">>

IdChars == {"0", "7", "x"}
Identifiers ==
    {HashA, HashUpper, HashShort, HashLong, HashNotHex, <<"-", "7">>, <<"+", "7">>}
    \cup SeqsOf(IdChars, 0, MaxIdLen)
Verbosities == {-1, 0, 3, 4}

sUrlNode == <<"h","t","t","p",":","/","/","n">>
sUrlFtp == <<"f","t","p",":","/","/","n">>
sUrlBad == <<":","n">>
sKey == <<"k">>
sCred == <<"a", ":", "s">>
sNoColon == <<"a", "s">>

Env(u, t, l) == [RPC_URL |-> u, RPC_AUTH_TYPE |-> t, RPC_AUTH_LABEL |-> l]
Envs == {Env(sUrlNode, AuthenticationTypeKey, sKey),
         Env(sUrlNode, AuthenticationTypeCredentials, sCred),
         Env(sUrlNode, AuthenticationTypeCredentials, sNoColon),
         Env(sUrlNode, "basic", sKey),
         Env(sUrlBad, "basic", sKey),
         Env(sUrlFtp, AuthenticationTypeKey, sKey),
         Env(sUrlNode, AuthenticationTypeKey, <<>>)}

\* the clients a caller can call Do on directly: those New returns
NewClients == {New(u, a).client : u \in {sUrlNode, sUrlFtp, sUrlBad, <<>>},
                                  a \in {[Type |-> AuthenticationTypeKey, Label |-> sKey],
                                         [Type |-> "basic", Label |-> sKey]}} \ {Nil}
DirectRequests == {Request("ping", <<>>), Request("ping", <<PChan>>)}

\* the daemon's replies: a status, the body's bytes and the envelope they decode to
Envelope(id, error, result) == [ID |-> id, Error |-> error, Result |-> result]
eNotFound == EMap(<<<<<<"c","o","d","e">>, <<"-", "5">>>>, <<kMessage, <<"B", " ", "n">>>>>>)
Bodies ==
    {[bytes |-> <<"o", "o", "p", "s">>, env |-> Nil],
     [bytes |-> <<"{", "1", "}">>, env |-> Envelope(Identifier, Nil, Raw("str", HashA))],
     [bytes |-> <<"{", "2", "}">>, env |-> Envelope("other", Nil, Raw("str", HashUpper))],
     [bytes |-> <<"{", "3", "}">>, env |-> Envelope(Identifier, Nil, Raw("str", <<"x">>))],
     [bytes |-> <<"{", "4", "}">>, env |-> Envelope(Identifier, Nil, Raw("null", <<>>))],
     [bytes |-> <<"{", "5", "}">>, env |-> Envelope(Identifier, Nil, Raw("obj", <<"{", "}">>))],
     [bytes |-> <<"{", "6", "}">>, env |-> Envelope(Identifier, Nil, Raw("arr", <<"[", "]">>))],
     [bytes |-> <<"{", "7", "}">>, env |-> Envelope(Identifier, Nil, Raw("num", <<"7">>))],
     [bytes |-> <<"{", "8", "}">>, env |-> Envelope(Identifier, Nil, Raw("absent", <<>>))],
     [bytes |-> <<"{", "9", "}">>, env |-> Envelope(Identifier, eNotFound, Raw("null", <<>>))],
     [bytes |-> <<"{", "a", "}">>, env |-> Envelope(Identifier, eNotFound, Raw("str", HashA))],
     [bytes |-> <<"{", "b", "}">>, env |-> Envelope(Identifier, EStr(<<>>), Raw("obj", <<"{", "}">>))]}
Statuses == {StatusOK, 401}
Replies == {[status |-> st, bytes |-> b.bytes, env |-> b.env] : st \in Statuses, b \in Bodies}

\* http.Client.Do reaches the network only for the http and https schemes
Routable(u) == UrlParse(u).Scheme \in {sHttp, sHttps}

Init ==
    /\ Client \in {ClientFromEnv(e) : e \in Envs}
    /\ RpcIdle
    /\ NormIdle
    /\ AuthIdle
    /\ PureIdle /\ ConcIdle

\* Do returns d, having read `read` from the HTTP stack (Nil: nothing was sent)
Returns(d, read) ==
    /\ pc' = "ret" /\ doRet' = d /\ rets' = Append(rets, [ret |-> d, read |-> read])

\* hand request r to Do
GoDo(r, ph, blk) ==
    /\ pc' = "do" /\ req' = r /\ phase' = ph /\ block' = blk
    /\ UNCHANGED <<opRet, doRet, rets, calls, wire>>

\* return ret to the caller
GoDone(ret) ==
    /\ pc' = "done" /\ opRet' = ret
    /\ UNCHANGED <<req, phase, block, doRet, rets, calls, wire>>

\* a GetBlock that builds its request without checking the verbosity
ProceedUnchecked(o, blk) == GoDo(MainRequest(o, blk), "main", blk)

\* an operation once block holds a hash: GetBlock checks the verbosity, and the
\* hash-only request goes to Do
Proceed(o, blk) ==
    IF o.name = "GetBlock" /\ VerbosityFrom(o.verbosity).err # Nil
    THEN GoDone([value |-> Nil, err |-> VerbosityFrom(o.verbosity).err])
    ELSE GoDo(MainRequest(o, blk), "main", blk)

\* the head of GetBlock, GetBlockFilter, GetBlockHeader and GetBlockStats: a block
\* that is no 64-character hash goes through strconv.Atoi, whose error is dropped,
\* and GetBlockHash
Enter(o) ==
    /\ op' = o
    /\ IF IsBlockHashInvalid(o.block)
       THEN GoDo(LookupRequest(Atoi(o.block).n), "lookup", o.block)
       ELSE Proceed(o, o.block)

Call_GetBlock ==
    /\ pc = "idle"
    /\ \E b \in Identifiers, v \in Verbosities :
        Enter([name |-> "GetBlock", block |-> b, verbosity |-> v])
    /\ UNCHANGED <<Client, nvars, avars, pvars, cvars>>

Call_GetBlockFilter ==
    /\ pc = "idle"
    /\ \E b \in Identifiers : Enter([name |-> "GetBlockFilter", block |-> b])
    /\ UNCHANGED <<Client, nvars, avars, pvars, cvars>>

Call_GetBlockHeader ==
    /\ pc = "idle"
    /\ \E b \in Identifiers, vb \in {<<>>, <<FALSE>>} :
        Enter([name |-> "GetBlockHeader", block |-> b, verbose |-> vb])
    /\ UNCHANGED <<Client, nvars, avars, pvars, cvars>>

Call_GetBlockStats ==
    /\ pc = "idle"
    /\ \E b \in Identifiers, st \in {<<>>, <<<<"t", "x", "s">>>>} :
        Enter([name |-> "GetBlockStats", block |-> b, stats |-> st])
    /\ UNCHANGED <<Client, nvars, avars, pvars, cvars>>

Call_GetBlockHash ==
    /\ pc = "idle"
    /\ \E h \in {0, 7} :
        /\ op' = [name |-> "GetBlockHash", height |-> h]
        /\ GoDo(LookupRequest(h), "main", <<>>)
    /\ UNCHANGED <<Client, nvars, avars, pvars, cvars>>

MemoryModes ==
    {<<>>, <<<<"s","t","a","t","s">>>>, <<<<"m","a","l","l","o","c","i","n","f","o">>>>,
     <<<<"S","t","a","t","s">>>>, <<<<>>>>}

Call_GetMemoryInfo ==
    /\ pc = "idle"
    /\ \E m \in MemoryModes :
        /\ op' = [name |-> "GetMemoryInfo", mode |-> m]
        /\ GoDo(GetMemoryInfoRequest(m), "main", <<>>)
    /\ UNCHANGED <<Client, nvars, avars, pvars, cvars>>

\* SetLogging(config) and GetLogging() both go through LoggingProcedure
Call_LoggingProcedure ==
    /\ pc = "idle"
    /\ \E inc \in {<<>>, <<<<"n","e","t">>>>}, exc \in {<<>>, <<<<"r","p","c">>>>} :
        /\ op' = [name |-> "LoggingProcedure", include |-> inc, exclude |-> exc]
        /\ GoDo(LoggingRequest(inc, exc), "main", <<>>)
    /\ UNCHANGED <<Client, nvars, avars, pvars, cvars>>

Subnets == {<<>>, <<"1",".","2">>}
Bans == [Subnet : Subnets, Time : {0, 60}, Absolute : BOOLEAN]

\* a SetBan that builds and sends its request whatever the subnet
Call_SetBanUnchecked ==
    /\ pc = "idle"
    /\ \E ban \in Bans :
        /\ op' = [name |-> "SetBan", ban |-> ban]
        /\ GoDo(SetBanRequest(ban), "main", <<>>)
    /\ UNCHANGED <<Client, nvars, avars, pvars, cvars>>

Call_SetBan ==
    /\ pc = "idle"
    /\ \E ban \in Bans :
        /\ op' = [name |-> "SetBan", ban |-> ban]
        /\ IF ban.Subnet = <<>>
           THEN GoDone([value |-> Nil, err |-> Of(sSubnetMust, "SetBan")])
           ELSE GoDo(SetBanRequest(ban), "main", <<>>)
    /\ UNCHANGED <<Client, nvars, avars, pvars, cvars>>

Call_Unban ==
    /\ pc = "idle"
    /\ \E subnet \in Subnets :
        /\ op' = [name |-> "Unban", subnet |-> subnet]
        /\ IF subnet = <<>>
           THEN GoDone([value |-> Nil, err |-> Of(sSubnetMust, "Unban")])
           ELSE GoDo(UnbanRequest(subnet), "main", <<>>)
    /\ UNCHANGED <<Client, nvars, avars, pvars, cvars>>

Call_ListBanned ==
    /\ pc = "idle"
    /\ op' = [name |-> "ListBanned"]
    /\ GoDo(Request("listbanned", <<>>), "main", <<>>)
    /\ UNCHANGED <<Client, nvars, avars, pvars, cvars>>

Call_Do ==
    /\ pc = "idle"
    /\ \E c \in NewClients \cup {Client}, r \in DirectRequests :
        /\ op' = [name |-> "Do", c |-> c]
        /\ GoDo(r, "main", <<>>)
    /\ UNCHANGED <<Client, nvars, avars, pvars, cvars>>

\* a first half of Do that sends the HTTP request twice
DoBeginResending ==
    /\ pc = "do"
    /\ calls' = Append(calls, req)
    /\ LET p == DoPrepare(Via(op), req)
       IN  CASE p.to = "panic" -> pc' = "panic" /\ UNCHANGED <<wire, doRet, rets>>
             [] p.to = "ret" -> Returns([resp |-> Nil, err |-> p.err], Nil) /\ UNCHANGED wire
             [] p.to = "wait" ->
                    /\ pc' = "wait"
                    /\ wire' = Append(Append(wire, p.http), p.http)
                    /\ UNCHANGED <<doRet, rets>>
    /\ UNCHANGED <<Client, op, phase, block, req, opRet, nvars, avars, pvars, cvars>>

\* RPCClient.Do, first half: serialize, build the HTTP request, authenticate, send
DoBegin ==
    /\ pc = "do"
    /\ calls' = Append(calls, req)
    /\ LET p == DoPrepare(Via(op), req)
       IN  CASE p.to = "panic" -> pc' = "panic" /\ UNCHANGED <<wire, doRet, rets>>
             [] p.to = "ret" -> Returns([resp |-> Nil, err |-> p.err], Nil) /\ UNCHANGED wire
             [] p.to = "wait" ->
                    pc' = "wait" /\ wire' = Append(wire, p.http) /\ UNCHANGED <<doRet, rets>>
    /\ UNCHANGED <<Client, op, phase, block, req, opRet, nvars, avars, pvars, cvars>>

\* a send failure answered by sending the request once more before giving up
HttpSendFailRetrying ==
    /\ pc = "wait"
    /\ IF Len(wire) < 3
       THEN /\ wire' = Append(wire, wire[Len(wire)])
            /\ UNCHANGED <<pc, doRet, rets>>
       ELSE /\ Returns([resp |-> Nil, err |-> Err(sFailedSend \o sNetErr, "Do")], [fail |-> "send"])
            /\ UNCHANGED wire
    /\ UNCHANGED <<Client, op, phase, block, req, calls, opRet, nvars, avars, pvars, cvars>>

\* http.Client.Do fails: no reply
HttpSendFail ==
    /\ pc = "wait"
    /\ Returns([resp |-> Nil, err |-> Err(sFailedSend \o sNetErr, "Do")], [fail |-> "send"])
    /\ UNCHANGED <<Client, op, phase, block, req, calls, wire, opRet, nvars, avars, pvars, cvars>>

\* the reply's body cannot be read to its end
HttpReadFail ==
    /\ pc = "wait"
    /\ Routable(Via(op).URL)
    /\ Returns([resp |-> Nil, err |-> Err(sFailedRead \o sNetErr, "Do")], [fail |-> "read"])
    /\ UNCHANGED <<Client, op, phase, block, req, calls, wire, opRet, nvars, avars, pvars, cvars>>

\* the daemon replies; RPCClient.Do, second half
HttpReply ==
    /\ pc = "wait"
    /\ Routable(Via(op).URL)
    /\ \E reply \in Replies : Returns(DoFinish(reply), reply)
    /\ UNCHANGED <<Client, op, phase, block, req, calls, wire, opRet, nvars, avars, pvars, cvars>>

\* the height lookup returned: an error is replaced by the invalid-identifier
\* error, a hash becomes block
ResumeLookup ==
    /\ pc = "ret" /\ phase = "lookup"
    /\ IF GetBlockHashFinish(doRet).err # Nil
       THEN GoDone([value |-> Nil, err |-> Of(sBlockMust, op.name)])
       ELSE Proceed(op, GetBlockHashFinish(doRet).hash)
    /\ UNCHANGED <<Client, op, nvars, avars, pvars, cvars>>

\* the operation's last Do call returned
ResumeMain ==
    /\ pc = "ret" /\ phase = "main"
    /\ GoDone(OpResult(op, doRet))
    /\ UNCHANGED <<Client, op, nvars, avars, pvars, cvars>>

\* the caller has the result; the next invocation starts afresh
Finish ==
    /\ pc = "done"
    /\ pc' = "idle" /\ op' = NoCall /\ phase' = "none" /\ block' = <<>> /\ req' = Nil
    /\ calls' = <<>> /\ wire' = <<>> /\ doRet' = Nil /\ rets' = <<>> /\ opRet' = Nil
    /\ UNCHANGED <<Client, nvars, avars, pvars, cvars>>

Next ==
    \/ Call_GetBlock \/ Call_GetBlockFilter \/ Call_GetBlockHeader \/ Call_GetBlockStats
    \/ Call_GetBlockHash \/ Call_Do
    \/ Call_GetMemoryInfo \/ Call_ListBanned \/ Call_LoggingProcedure
    \/ Call_SetBan \/ Call_Unban
    \/ DoBegin \/ HttpSendFail \/ HttpReadFail \/ HttpReply
    \/ ResumeLookup \/ ResumeMain \/ Finish

Spec == Init /\ [][Next]_vars

---------------------------------------------------------------------------
(* Functions on their own: one argument drawn from a bounded family, one   *)
(* application.                                                            *)

MaxVerbosity == 5   \* VerbosityFrom is applied to -MaxVerbosity..MaxVerbosity

\* raw result payloads of every kind
RawResults ==
    {Raw("absent", <<>>), Raw("null", <<"n","u","l","l">>), Raw("str", <<"\"", "a", "\"">>),
     Raw("num", <<"7">>), Raw("bool", <<"t","r","u","e">>),
     Raw("obj", <<"{", "}">>), Raw("obj", <<"{", "\"", "a", "\"", ":", "7", "}">>),
     Raw("arr", <<"[", "]">>), Raw("arr", <<"[", "{", "}", "]">>),
     Raw("arrnum", <<"[", "7", "]">>), Raw("arrnull", <<"[", "n","u","l","l", "]">>)}

\* s with its i-th character replaced by c (s itself when it has no i-th character)
Poke(s, i, c) == IF i \in 1..Len(s) THEN [s EXCEPT ![i] = c] ELSE s

\* strings around the 64-character hexadecimal shape
HashStrings ==
    {Poke(Rep(c, n), i, d) :
        c \in {"a", "0", "F"},
        n \in {0, 1, HashLen - 1, HashLen, HashLen + 1},
        i \in {1, 32, HashLen},
        d \in {"a", "f", "A", "9", "g", "G", "/", ":", "@", "~", " ", "\n", "x"}}

MaxParams == 2      \* parameters of a Request that is serialized and read back

\* encoding/json on a Go string: the quote and the backslash are escaped, a byte
\* that is no valid UTF-8 ("xFF") is written as the replacement character
EncodeChar(c) ==
    CASE c = "\"" -> "\\\""
      [] c = "\\" -> "\\\\"
      [] c = "xFF" -> "uFFFD"
      [] OTHER -> c
DecodeChar(e) ==
    CASE e = "\\\"" -> "\""
      [] e = "\\\\" -> "\\"
      [] OTHER -> e
JsonString(str) == [j |-> "string", text |-> [i \in 1..Len(str) |-> EncodeChar(str[i])]]
GoString(js) == [i \in 1..Len(js.text) |-> DecodeChar(js.text[i])]

\* json.Marshal of one element of Params
MarshalParam(p) ==
    CASE p.t = "str" -> JsonString(p.v)
      [] p.t = "int" -> [j |-> "number", text |-> Itoa(p.v)]
      [] p.t = "bool" -> [j |-> "bool", v |-> p.v]
      [] p.t = "list" -> [j |-> "array", items |-> [i \in 1..Len(p.v) |-> JsonString(p.v[i])]]

\* a Request written with its tags exchanged: the id under "method", the method under "id"
MarshalTagsExchanged(request) ==
    IF \E i \in 1..Len(request.Params) : request.Params[i] = PChan
    THEN [json |-> Nil, err |-> Err(sUnsupportedType, "json")]
    ELSE [json |-> [id |-> request.Method, jsonrpc |-> request.Version, method |-> request.ID,
                    params |-> [i \in 1..Len(request.Params) |-> MarshalParam(request.Params[i])]],
          err |-> Nil]

\* json.Marshal(request): the object {id, jsonrpc, method, params} of the struct tags
Marshal(request) ==
    IF \E i \in 1..Len(request.Params) : request.Params[i] = PChan
    THEN [json |-> Nil, err |-> Err(sUnsupportedType, "json")]
    ELSE [json |-> [id |-> request.ID, jsonrpc |-> request.Version, method |-> request.Method,
                    params |-> [i \in 1..Len(request.Params) |-> MarshalParam(request.Params[i])]],
          err |-> Nil]

\* json.Unmarshal of one element into `any`: a number becomes a float64, an array a []any
UnmarshalAny(js) ==
    CASE js.j = "string" -> [t |-> "str", v |-> GoString(js)]
      [] js.j = "number" -> [t |-> "float64", v |-> Atoi(js.text).n]
      [] js.j = "bool" -> [t |-> "bool", v |-> js.v]
      [] js.j = "array" -> [t |-> "[]any", v |-> [i \in 1..Len(js.items) |-> GoString(js.items[i])]]

\* json.Unmarshal(bytes, &Request{}): the fields read back by their tags
Unmarshal(json) ==
    [ID |-> json.id, Version |-> json.jsonrpc, Method |-> json.method,
     Params |-> [i \in 1..Len(json.params) |-> UnmarshalAny(json.params[i])]]

\* a Request serialized and read back
RoundTrip(request) ==
    IF Marshal(request).err # Nil
    THEN [value |-> Nil, err |-> Marshal(request).err]
    ELSE [value |-> Unmarshal(Marshal(request).json), err |-> Nil]

ParamValues ==
    <<PStr(<<"a">>), PStr(<<"a", "\"", "\\">>), PStr(<<"a", "xFF">>), PInt(7), PInt(-1),
      PBool(TRUE), PList(<<<<"t", "x">>, <<"h">>>>), PChan>>
RoundTripMethods == {"ping", "getblockstats"}

NewUris ==
    {<<>>, sUrlNode, sUrlFtp, sUrlBad,
     <<"h","t","t","p","s",":","/","/","n">>, <<"h","t","t","p","x",":","/","/","n">>,
     <<"h","t","t","p">>, <<"n">>}
NewAuthentications ==
    {[Type |-> AuthenticationTypeKey, Label |-> sKey],
     [Type |-> AuthenticationTypeKey, Label |-> <<>>],
     [Type |-> AuthenticationTypeCredentials, Label |-> sCred],
     [Type |-> AuthenticationTypeCredentials, Label |-> sNoColon],
     [Type |-> "basic", Label |-> sKey]}

PureInit ==
    /\ \/ pIn \in {[k |-> "resp", v |-> Envelope(Identifier, Nil, raw)] : raw \in RawResults}
       \/ pIn \in {[k |-> "int", v |-> i] : i \in (0 - MaxVerbosity)..MaxVerbosity}
       \/ pIn \in {[k |-> "str", v |-> h] : h \in HashStrings}
       \/ pIn \in {[k |-> "new", v |-> [uri |-> u, authentication |-> a]] :
                      u \in NewUris, a \in NewAuthentications}
       \/ \E m \in RoundTripMethods, n \in 0..MaxParams :
            \E f \in [1..n -> 1..Len(ParamValues)] :
                pIn = [k |-> "req", v |-> Request(m, [i \in 1..n |-> ParamValues[f[i]]])]
    /\ pOut = NoCall
    /\ NormIdle /\ AuthIdle /\ ConcIdle
    /\ Client = Nil /\ RpcIdle

CallUnmarshalResult ==
    /\ pOut = NoCall /\ pIn.k = "resp"
    /\ pOut' = [fn |-> "UnmarshalResult", ret |-> UnmarshalResult(pIn.v)]
    /\ UNCHANGED <<pIn, nvars, avars, rvars, cvars>>

CallUnmarshalArray ==
    /\ pOut = NoCall /\ pIn.k = "resp"
    /\ pOut' = [fn |-> "UnmarshalArray", ret |-> UnmarshalArray(pIn.v)]
    /\ UNCHANGED <<pIn, nvars, avars, rvars, cvars>>

CallVerbosityFrom ==
    /\ pOut = NoCall /\ pIn.k = "int"
    /\ pOut' = [fn |-> "VerbosityFrom", ret |-> VerbosityFrom(pIn.v)]
    /\ UNCHANGED <<pIn, nvars, avars, rvars, cvars>>

CallIsBlockHashInvalid ==
    /\ pOut = NoCall /\ pIn.k = "str"
    /\ pOut' = [fn |-> "IsBlockHashInvalid", ret |-> IsBlockHashInvalid(pIn.v)]
    /\ UNCHANGED <<pIn, nvars, avars, rvars, cvars>>

CallRoundTrip ==
    /\ pOut = NoCall /\ pIn.k = "req"
    /\ pOut' = [fn |-> "RoundTrip", ret |-> RoundTrip(pIn.v)]
    /\ UNCHANGED <<pIn, nvars, avars, rvars, cvars>>

CallNew ==
    /\ pOut = NoCall /\ pIn.k = "new"
    /\ pOut' = [fn |-> "New", ret |-> New(pIn.v.uri, pIn.v.authentication)]
    /\ UNCHANGED <<pIn, nvars, avars, rvars, cvars>>

PureNext ==
    \/ CallRoundTrip
    \/ CallNew
    \/ CallUnmarshalResult
    \/ CallUnmarshalArray
    \/ CallVerbosityFrom
    \/ CallIsBlockHashInvalid

SpecPure == PureInit /\ [][PureNext]_vars

---------------------------------------------------------------------------
(* One client shared by goroutines: each goroutine calls Do, or a method of *)
(* the client's Authentication, and the calls interleave at every step.    *)
(* gwire holds the HTTP requests in flight, each with its goroutine.       *)

ConcReplies ==
    {r \in Replies : r.bytes \in {<<"o", "o", "p", "s">>, <<"{", "1", "}">>, <<"{", "5", "}">>,
                                    <<"{", "9", "}">>}}

\* a panic in one goroutine ends the process
Running == \A g \in Goroutines : gpc[g] # "panic"

ConcInit ==
    /\ Client \in NewClients \cup ({ClientFromEnv(e) : e \in Envs} \ {Nil})
    /\ ConcIdle
    /\ RpcIdle /\ NormIdle /\ AuthIdle /\ PureIdle

\* goroutine g returns d from Do, having read `read`
GReturns(g, d, read) ==
    /\ gpc' = [gpc EXCEPT ![g] = "ret"]
    /\ gret' = [gret EXCEPT ![g] = d]
    /\ gread' = [gread EXCEPT ![g] = read]
    /\ gwire' = SelectSeq(gwire, LAMBDA m : m.g # g)

GCallDo(g) ==
    /\ Running /\ gpc[g] = "idle"
    /\ \E r \in DirectRequests : greq' = [greq EXCEPT ![g] = r]
    /\ gpc' = [gpc EXCEPT ![g] = "do"]
    /\ UNCHANGED <<Client, gread, gret, gwire, nvars, avars, pvars>>
    /\ UNCHANGED <<pc, op, phase, block, req, calls, wire, doRet, rets, opRet>>

\* RPCClient.Do, first half, in goroutine g
GDoBegin(g) ==
    /\ Running /\ gpc[g] = "do"
    /\ LET p == DoPrepare(Client, greq[g])
       IN  CASE p.to = "panic" ->
                    gpc' = [gpc EXCEPT ![g] = "panic"] /\ UNCHANGED <<gread, gret, gwire>>
             [] p.to = "ret" -> GReturns(g, [resp |-> Nil, err |-> p.err], Nil)
             [] p.to = "wait" ->
                    /\ gpc' = [gpc EXCEPT ![g] = "wait"]
                    /\ gwire' = Append(gwire, [g |-> g, http |-> p.http])
                    /\ UNCHANGED <<gread, gret>>
    /\ UNCHANGED <<Client, greq, nvars, avars, pvars>>
    /\ UNCHANGED <<pc, op, phase, block, req, calls, wire, doRet, rets, opRet>>

GHttpSendFail(g) ==
    /\ Running /\ gpc[g] = "wait"
    /\ GReturns(g, [resp |-> Nil, err |-> Err(sFailedSend \o sNetErr, "Do")], [fail |-> "send"])
    /\ UNCHANGED <<Client, greq, nvars, avars, pvars>>
    /\ UNCHANGED <<pc, op, phase, block, req, calls, wire, doRet, rets, opRet>>

GHttpReadFail(g) ==
    /\ Running /\ gpc[g] = "wait"
    /\ Routable(Client.URL)
    /\ GReturns(g, [resp |-> Nil, err |-> Err(sFailedRead \o sNetErr, "Do")], [fail |-> "read"])
    /\ UNCHANGED <<Client, greq, nvars, avars, pvars>>
    /\ UNCHANGED <<pc, op, phase, block, req, calls, wire, doRet, rets, opRet>>

\* a Do whose Response is one value kept in the client: the reply that arrives
\* for g is also seen through the pointer every earlier call returned
GHttpReplySharedResponse(g) ==
    /\ Running /\ gpc[g] = "wait"
    /\ Routable(Client.URL)
    /\ \E reply \in ConcReplies :
        /\ gpc' = [gpc EXCEPT ![g] = "ret"]
        /\ gread' = [gread EXCEPT ![g] = reply]
        /\ gwire' = SelectSeq(gwire, LAMBDA m : m.g # g)
        /\ gret' = [h \in Goroutines |->
                      IF h = g THEN DoFinish(reply)
                      ELSE IF gpc[h] = "ret" /\ gret[h].resp # Nil /\ DoFinish(reply).resp # Nil
                      THEN [gret[h] EXCEPT !.resp = DoFinish(reply).resp]
                      ELSE gret[h]]
    /\ UNCHANGED <<Client, greq, nvars, avars, pvars>>
    /\ UNCHANGED <<pc, op, phase, block, req, calls, wire, doRet, rets, opRet>>

\* the daemon replies to g's request; RPCClient.Do, second half, in goroutine g
GHttpReply(g) ==
    /\ Running /\ gpc[g] = "wait"
    /\ Routable(Client.URL)
    /\ \E reply \in ConcReplies : GReturns(g, DoFinish(reply), reply)
    /\ UNCHANGED <<Client, greq, nvars, avars, pvars>>
    /\ UNCHANGED <<pc, op, phase, block, req, calls, wire, doRet, rets, opRet>>

\* goroutine g calls a method of the client's Authentication
GAuthReturns(g, out) ==
    /\ Running /\ gpc[g] = "idle"
    /\ gpc' = [gpc EXCEPT ![g] = IF out.fn = "GetCredentials" /\ out.ret = Panic
                                 THEN "panic" ELSE "aret"]
    /\ gret' = [gret EXCEPT ![g] = out]
    /\ UNCHANGED <<Client, greq, gread, gwire, nvars, avars, pvars>>
    /\ UNCHANGED <<pc, op, phase, block, req, calls, wire, doRet, rets, opRet>>

GCallValidate(g) ==
    GAuthReturns(g, [fn |-> "Validate", err |-> Validate(Client.Authentication)])

GCallGetCredentials(g) ==
    GAuthReturns(g, [fn |-> "GetCredentials", ret |-> GetCredentials(Client.Authentication)])

GCallSetup(g) ==
    GAuthReturns(g, [fn |-> "Setup", err |-> Setup(Client.Authentication, NoHeader).err,
                     header |-> Setup(Client.Authentication, NoHeader).header])

\* the caller in goroutine g has its result
GFinish(g) ==
    /\ Running /\ gpc[g] \in {"ret", "aret"}
    /\ gpc' = [gpc EXCEPT ![g] = "idle"]
    /\ greq' = [greq EXCEPT ![g] = Nil]
    /\ gread' = [gread EXCEPT ![g] = Nil]
    /\ gret' = [gret EXCEPT ![g] = Nil]
    /\ UNCHANGED <<Client, gwire, nvars, avars, pvars>>
    /\ UNCHANGED <<pc, op, phase, block, req, calls, wire, doRet, rets, opRet>>

ConcNext ==
    \E g \in Goroutines :
        \/ GCallDo(g) \/ GDoBegin(g)
        \/ GHttpSendFail(g) \/ GHttpReadFail(g) \/ GHttpReply(g)
        \/ GCallValidate(g) \/ GCallGetCredentials(g) \/ GCallSetup(g)
        \/ GFinish(g)

SpecConc == ConcInit /\ [][ConcNext]_vars

---------------------------------------------------------------------------
(* Claims about the normalizer (checked under SpecNorm)                    *)

\* a reference reading of map[code:<c> message:<m>], <c> without a space:
\* <c> runs up to the first space after "map[code:", <m> from "message:" to the final "]"
ShapedBody(t) == SubSeq(t, Len(sMapOpen \o sCode) + 1, Len(t) - 1)
FirstSpace(b) == IF \E i \in 1..Len(b) : b[i] = " "
                 THEN CHOOSE i \in 1..Len(b) : b[i] = " " /\ \A j \in 1..(i - 1) : b[j] # " "
                 ELSE 0
IsShaped(t) ==
    /\ HasPrefix(t, sMapOpen \o sCode)
    /\ Len(t) > Len(sMapOpen \o sCode)
    /\ HasSuffix(t, sClose)
    /\ FirstSpace(ShapedBody(t)) > 0
    /\ HasPrefix(SubSeq(ShapedBody(t), FirstSpace(ShapedBody(t)) + 1, Len(ShapedBody(t))), sMessage)
ShapedMessage(t) ==
    SubSeq(ShapedBody(t), FirstSpace(ShapedBody(t)) + Len(sMessage) + 1, Len(ShapedBody(t)))
CleanMessage(m) == m # <<>> /\ ~Contains(m, sCode) /\ ~Contains(m, sMessage)

\* C4: for an error text map[code:<c> message:<m>] (<c> without a space, <m> non-empty
\* and holding neither "code:" nor "message:"), JsonResult/ArrayResult with a nil
\* response return a nil value and an error whose message is <m> lower-cased, spaces
\* kept; a supplied warning w follows it as " (w)".
C4_NormalizeShaped ==
    (/\ nOut # NoCall
     /\ nOut.fn \in {"JsonResult", "ArrayResult"}
     /\ IsShaped(nErr.text)
     /\ CleanMessage(ShapedMessage(nErr.text)))
    => /\ nOut.ret.value = Nil
       /\ nOut.ret.err # Nil
       /\ nOut.ret.err.text =
            IF nWarn = <<>>
            THEN ToLower(ShapedMessage(nErr.text))
            ELSE ToLower(ShapedMessage(nErr.text)) \o <<" ", "(">> \o nWarn[1] \o <<")">>

\* C4 witness: map[code:5 message:B B] was normalized to "b b"
C4_Witness ==
    /\ nOut # NoCall
    /\ nOut.fn = "JsonResult"
    /\ nWarn = <<>>
    /\ nErr.text = ShapedText(<<"5">>, <<"B", " ", "B">>)
    /\ nOut.ret.err.text = <<"b", " ", "b">>

\* C5: an error whose text does not begin with "map[" is returned as the same error
\* value, not lower-cased and without a warning suffix.
C5_NonMapUnchanged ==
    (nOut # NoCall /\ ~HasPrefix(nErr.text, sMapOpen))
    => (nOut.ret.value = Nil /\ nOut.ret.err = nErr)

\* C6: a "map["-prefixed text without a message (or with an empty one) comes back as
\* the original error; the returned error is never nil and never has an empty message.
C6_NoMessageUnchanged ==
    (nOut # NoCall /\ HasPrefix(nErr.text, sMapOpen))
    => /\ nOut.ret.err # Nil
       /\ nOut.ret.err.text # <<>>
       /\ (kMessage \notin DOMAIN stringToMap(nErr.text) => nOut.ret.err = nErr)

---------------------------------------------------------------------------
(* Claims about the authenticator (checked under SpecAuth)                 *)

ColonCount(s) == Cardinality({i \in 1..Len(s) : s[i] = ":"})
FirstColon(s) == CHOOSE i \in 1..Len(s) : s[i] = ":" /\ \A j \in 1..(i - 1) : s[j] # ":"

\* C7: Validate succeeds if and only if the type is api-key or user:password, the
\* label is non-empty and, for user:password, the label holds exactly one ":" with a
\* non-empty part on each side.
C7_ValidateIff ==
    (aOut # NoCall /\ aOut.fn = "Validate")
    => ((aOut.err = Nil) <=>
          /\ aAuth.Type \in {"api-key", "user:password"}
          /\ aAuth.Label # <<>>
          /\ (aAuth.Type = "user:password" =>
                /\ ColonCount(aAuth.Label) = 1
                /\ Head(aAuth.Label) # ":"
                /\ aAuth.Label[Len(aAuth.Label)] # ":"))

\* C8: Setup on a valid Authentication sets Authorization to "Bearer " + label
\* (api-key) or to Basic auth with the label cut at its first ":" (user:password) and
\* touches no other header; on an invalid one it returns Validate's error and leaves
\* the headers as they were.
C8_SetupHeaders ==
    (aOut # NoCall /\ aOut.fn = "Setup")
    => IF Validate(aAuth) = Nil
       THEN /\ aOut.err = Nil
            /\ aOut.header.ContentType = aReq.ContentType
            /\ (aAuth.Type = "api-key" =>
                  aOut.header.Authorization = [text |-> <<"B", "e", "a", "r", "e", "r", " ">> \o aAuth.Label])
            /\ (aAuth.Type = "user:password" =>
                  aOut.header.Authorization =
                      [scheme |-> "Basic",
                       username |-> SubSeq(aAuth.Label, 1, FirstColon(aAuth.Label) - 1),
                       password |-> SubSeq(aAuth.Label, FirstColon(aAuth.Label) + 1, Len(aAuth.Label))])
       ELSE /\ aOut.err = Validate(aAuth)
            /\ aOut.err # Nil
            /\ aOut.header = aReq

\* C8 witness: Setup put Basic auth a / s:a on a request that carried a stale header
C8_Witness ==
    /\ aOut # NoCall
    /\ aOut.fn = "Setup"
    /\ aAuth = [Type |-> "user:password", Label |-> <<"a", ":", "s", ":">>]
    /\ aReq = StaleHeader
    /\ aOut.header.Authorization = [scheme |-> "Basic", username |-> <<"a">>, password |-> <<"s", ":">>]

\* C28: GetCredentials returns for every Authentication and never panics: two
\* empty strings when Validate fails, otherwise the label before its first ":" as
\* the username and the label after it as the password.
C28_GetCredentialsTotal ==
    (aOut # NoCall /\ aOut.fn = "GetCredentials") =>
       /\ aOut.ret # Panic
       /\ IF Validate(aAuth) # Nil
          THEN aOut.ret = [username |-> <<>>, password |-> <<>>]
          ELSE /\ FirstColon(aAuth.Label) > 0
               /\ aOut.ret.username = SubSeq(aAuth.Label, 1, FirstColon(aAuth.Label) - 1)
               /\ aOut.ret.password =
                     SubSeq(aAuth.Label, FirstColon(aAuth.Label) + 1, Len(aAuth.Label))

---------------------------------------------------------------------------
(* Claims about the transport and the block operations (checked under Spec) *)

BlockOps == {"GetBlock", "GetBlockFilter", "GetBlockHeader", "GetBlockStats"}
HashOnlyMethods == {"getblock", "getblockfilter", "getblockheader", "getblockstats"}
DecimalDigits == {"0", "1", "2", "3", "4", "5", "6", "7", "8", "9"}

\* reference readings of an identifier: a 64-character hexadecimal hash, an integer
\* (an optional sign and decimal digits), a decimal height and its value
IsHex64(b) == Len(b) = 64 /\ \A i \in 1..Len(b) : b[i] \in HexChars
IsDecimal(b) == b # <<>> /\ \A i \in 1..Len(b) : b[i] \in DecimalDigits
IsInteger(b) == IsDecimal(b) \/ (b # <<>> /\ Head(b) \in {"+", "-"} /\ IsDecimal(Tail(b)))
RECURSIVE DecimalValue(_)
DecimalValue(b) ==
    IF b = <<>> THEN 0
    ELSE 10 * DecimalValue(SubSeq(b, 1, Len(b) - 1))
         + (CHOOSE d \in 0..9 : Digits[d + 1] = b[Len(b)])
MethodCalls(m) == {i \in 1..Len(calls) : calls[i].Method = m}
RunningBlockOp == op # NoCall /\ op.name \in BlockOps

\* C1: for an identifier that is neither a 64-character hexadecimal hash nor an
\* integer, GetBlock, GetBlockFilter, GetBlockHeader and GetBlockStats never hand
\* their hash-only request to the transport, and return the invalid-identifier error.
C1_InvalidIdentifierRejected ==
    (RunningBlockOp /\ ~IsHex64(op.block) /\ ~IsInteger(op.block))
    => /\ \A i \in 1..Len(calls) : calls[i].Method \notin HashOnlyMethods
       /\ (pc = "done" => (opRet.value = Nil /\ opRet.err # Nil /\ opRet.err.text = sBlockMust))

\* C2: a 64-character hexadecimal identifier is the first parameter of the hash-only
\* request as it is and no getblockhash lookup is made; a decimal height makes
\* exactly one getblockhash lookup, the first request, carrying that height, and the
\* hash the lookup returned is the first parameter of the hash-only request after it.
C2_IdentifierResolution ==
    RunningBlockOp =>
       /\ IsHex64(op.block) =>
            /\ MethodCalls("getblockhash") = {}
            /\ \A i \in 1..Len(calls) :
                  /\ calls[i].Method \in HashOnlyMethods
                  /\ calls[i].Params[1] = [t |-> "str", v |-> op.block]
       /\ (IsDecimal(op.block) /\ ~IsHex64(op.block)) =>
            /\ Cardinality(MethodCalls("getblockhash")) <= 1
            /\ (pc \in {"wait", "ret", "done"} => Cardinality(MethodCalls("getblockhash")) = 1)
            /\ (calls # <<>> =>
                  calls[1] = [ID |-> "bitclient", Version |-> "2.0", Method |-> "getblockhash",
                              Params |-> <<[t |-> "int", v |-> DecimalValue(op.block)]>>])
            /\ \A i \in 2..Len(calls) :
                  /\ calls[i].Method \in HashOnlyMethods
                  /\ rets[1].ret.resp # Nil
                  /\ calls[i].Params[1] = [t |-> "str", v |-> rets[1].ret.resp.Result.v]

\* C2 witness: GetBlockStats("70") looked up height 70 and sent getblockstats with
\* the hash the daemon returned
C2_Witness ==
    /\ pc = "done"
    /\ op.name = "GetBlockStats"
    /\ op.block = <<"7", "0">>
    /\ Len(calls) = 2
    /\ calls[1].Params = <<[t |-> "int", v |-> 70]>>
    /\ calls[2].Method = "getblockstats"
    /\ calls[2].Params[1] = [t |-> "str", v |-> HashUpper]

Serializable(r) == \A i \in 1..Len(r.Params) : r.Params[i].t # "chan"
InvalidAuthClient ==
    op # NoCall /\ Via(op) # Nil /\ Validate(Via(op).Authentication) # Nil

\* C9 as stated: with an Authentication that fails validation, Do returns that
\* validation error and nothing is sent.
C9_InvalidAuthReturnsValidationError ==
    InvalidAuthClient =>
       /\ wire = <<>>
       /\ \A i \in 1..Len(rets) : rets[i].ret.err = Validate(Via(op).Authentication)

\* C9 amended: with an Authentication that fails validation, Do returns no response
\* and an error and nothing is sent; the error is the validation error whenever the
\* request serializes and the URL parses.  Every request sent carries an
\* Authentication that passes Validate.
C9_InvalidAuthNeverSent ==
    /\ (wire # <<>> => (Via(op) # Nil /\ Validate(Via(op).Authentication) = Nil))
    /\ InvalidAuthClient =>
          /\ wire = <<>>
          /\ pc # "wait"
          /\ \A i \in 1..Len(rets) :
                /\ rets[i].read = Nil
                /\ rets[i].ret.resp = Nil
                /\ rets[i].ret.err # Nil
                /\ (Serializable(calls[i]) /\ ~UrlParse(Via(op).URL).err)
                      => rets[i].ret.err = Validate(Via(op).Authentication)

\* C9 witness: the client built from RPC_AUTH_TYPE=basic returned the validation
\* error from Do without sending
C9_Witness ==
    /\ pc = "ret"
    /\ op.name = "GetBlockHash"
    /\ Client # Nil
    /\ Client.Authentication.Type = "basic"
    /\ doRet.resp = Nil
    /\ doRet.err.text = sInvalidAuthType
    /\ wire = <<>>

IsReply(x) == "status" \in DOMAIN x

\* C10: every return of Do holds exactly one of a response and an error; a response
\* only when the reply had status 200, decoded as an envelope and carried no error,
\* and then it is that envelope; an envelope with an error gives an error built
\* from that value and no response.
C10_ResponseXorError ==
    \A i \in 1..Len(rets) :
        LET d == rets[i].ret
            read == rets[i].read
        IN  /\ (d.resp = Nil) # (d.err = Nil)
            /\ d.resp # Nil =>
                  /\ IsReply(read)
                  /\ read.status = 200
                  /\ read.env # Nil
                  /\ read.env.Error = Nil
                  /\ d.resp = read.env
            /\ (IsReply(read) /\ read.status = 200 /\ read.env # Nil /\ read.env.Error = Nil)
                  => d.resp # Nil
            /\ (IsReply(read) /\ read.status = 200 /\ read.env # Nil /\ read.env.Error # Nil)
                  => /\ d.resp = Nil
                     /\ d.err # Nil
                     /\ (read.env.Error = eNotFound => d.err.text = <<"m","a","p","[","c","o","d","e",":","-","5"," ","m","e","s","s","a","g","e",":","B"," ","n","]">>)

\* C10 witness: an envelope with an error and a result came back as the error alone
C10_Witness ==
    /\ pc = "ret"
    /\ rets # <<>>
    /\ IsReply(rets[Len(rets)].read)
    /\ rets[Len(rets)].read.status = 200
    /\ rets[Len(rets)].read.env = Envelope(Identifier, eNotFound, Raw("str", HashA))
    /\ doRet.resp = Nil
    /\ doRet.err.text = <<"m","a","p","[","c","o","d","e",":","-","5"," ","m","e","s","s","a","g","e",":","B"," ","n","]">>

\* C11: a reply whose status is not 200 makes Do return no response and an error
\* carrying the status code and the raw body, also when the body is a well-formed
\* envelope with an error field: the status is checked before the envelope.
C11_StatusBeforeEnvelope ==
    \A i \in 1..Len(rets) :
        LET d == rets[i].ret
            read == rets[i].read
        IN  (IsReply(read) /\ read.status # 200)
            => /\ d.resp = Nil
               /\ d.err # Nil
               /\ (read.status = 401 => d.err.text = <<"s","e","r","v","e","r"," ","r","e","s","p","o","n","d","e","d"," ","w","i","t","h"," ","s","t","a","t","u","s"," ","c","o","d","e"," ","4","0","1",":"," ">> \o read.bytes)

\* C11 witness: a 401 reply whose body is an envelope with an error came back as
\* the status error
C11_Witness ==
    /\ pc = "ret"
    /\ rets # <<>>
    /\ IsReply(rets[Len(rets)].read)
    /\ rets[Len(rets)].read.status = 401
    /\ rets[Len(rets)].read.env # Nil
    /\ rets[Len(rets)].read.env.Error = eNotFound
    /\ doRet.resp = Nil
    /\ doRet.err.text = <<"s","e","r","v","e","r"," ","r","e","s","p","o","n","d","e","d"," ","w","i","t","h"," ","s","t","a","t","u","s"," ","c","o","d","e"," ","4","0","1",":"," ">> \o <<"{", "9", "}">>

---------------------------------------------------------------------------
(* Claims about functions on their own (checked under SpecPure)            *)

\* C12: UnmarshalResult returns a decoding error, and no value, whenever the raw
\* result is not a JSON object (an array, a scalar, null, or absent), and
\* UnmarshalArray whenever it is not a JSON array of objects; each succeeds only
\* on its own shape.
C12_DecodeOwnShapeOnly ==
    /\ (pOut # NoCall /\ pOut.fn = "UnmarshalResult")
       => /\ (pOut.ret.err = Nil) <=> (pIn.v.Result.k = "obj")
          /\ (pOut.ret.err = Nil) # (pOut.ret.value = Nil)
    /\ (pOut # NoCall /\ pOut.fn = "UnmarshalArray")
       => /\ (pOut.ret.err = Nil) <=> (pIn.v.Result.k = "arr")
          /\ (pOut.ret.err = Nil) # (pOut.ret.value = Nil)

\* C14: VerbosityFrom(v) succeeds exactly when 0 <= v <= 3 and then returns the
\* level whose number is v; otherwise it returns level 0 and an error whose
\* message carries v and the valid range 0-3.
RECURSIVE DecimalText(_)
DecimalText(n) ==
    IF n < 0 THEN <<"-">> \o DecimalText(0 - n)
    ELSE IF n < 10 THEN <<Digits[n + 1]>>
    ELSE DecimalText(n \div 10) \o <<Digits[(n % 10) + 1]>>
C14_VerbosityRange ==
    (pOut # NoCall /\ pOut.fn = "VerbosityFrom")
    => /\ (pOut.ret.err = Nil) <=> (0 <= pIn.v /\ pIn.v <= 3)
       /\ (pOut.ret.err = Nil => pOut.ret.v = pIn.v)
       /\ (pOut.ret.err # Nil =>
             pOut.ret.err.text = <<"i","n","v","a","l","i","d"," ","v","e","r","b","o","s","i","t","y"," ","l","e","v","e","l"," ","(">> \o DecimalText(pIn.v) \o <<")",","," ","v","a","l","i","d"," ","r","a","n","g","e"," ","i","s"," ","0","-","3">>)

\* C14 witness: VerbosityFrom(4) failed with the message naming 4 and the range
C14_Witness ==
    /\ pOut # NoCall /\ pOut.fn = "VerbosityFrom"
    /\ pIn.v = 4
    /\ pOut.ret.err # Nil
    /\ pOut.ret.err.text = <<"i","n","v","a","l","i","d"," ","v","e","r","b","o","s","i","t","y"," ","l","e","v","e","l"," ","(","4",")",","," ","v","a","l","i","d"," ","r","a","n","g","e"," ","i","s"," ","0","-","3">>

\* C16: IsBlockHashInvalid(s) is false exactly when s has 64 characters, each of
\* them in 0-9, a-f or A-F.
C16_HashShape ==
    (pOut # NoCall /\ pOut.fn = "IsBlockHashInvalid")
    => (pOut.ret = FALSE <=>
           (Len(pIn.v) = 64 /\ \A i \in 1..Len(pIn.v) :
               pIn.v[i] \in {"0", "1", "2", "3", "4", "5", "6", "7", "8", "9",
                             "a", "b", "c", "d", "e", "f", "A", "B", "C", "D", "E", "F"}))

\* C16 witness: a 64-character string with one non-hexadecimal character is invalid
C16_Witness ==
    /\ pOut # NoCall /\ pOut.fn = "IsBlockHashInvalid"
    /\ Len(pIn.v) = 64
    /\ pIn.v[32] = "g"
    /\ pOut.ret = TRUE

---------------------------------------------------------------------------
(* Claims about the process as a whole                                     *)

\* C13: no operation panics: every call returns a value or an error to its caller.
C13_NoPanic ==
    /\ pc # "panic"
    /\ (aOut # NoCall /\ aOut.fn = "GetCredentials") => aOut.ret # Panic

\* C15: GetBlock on a 64-character hexadecimal hash: with a verbosity outside 0..3
\* it sends nothing and returns an error and no response; with a verbosity in 0..3
\* it sends one getblock request with params [hash, verbosity], and returns a
\* response and no error when the daemon answers that request successfully.
AnsweredOk(r) ==
    /\ IsReply(r.read)
    /\ r.read.status = 200
    /\ r.read.env # Nil
    /\ r.read.env.Error = Nil
C15_GetBlockVerbosity ==
    (op # NoCall /\ op.name = "GetBlock" /\ IsHex64(op.block))
    => /\ (op.verbosity < 0 \/ op.verbosity > 3) =>
            /\ calls = <<>>
            /\ wire = <<>>
            /\ (pc = "done" => (opRet.value = Nil /\ opRet.err # Nil))
       /\ (0 <= op.verbosity /\ op.verbosity <= 3) =>
            /\ Len(calls) <= 1
            /\ \A i \in 1..Len(calls) :
                  calls[i] = [ID |-> "bitclient", Version |-> "2.0", Method |-> "getblock",
                              Params |-> <<[t |-> "str", v |-> op.block],
                                           [t |-> "int", v |-> op.verbosity]>>]
            /\ (pc = "done" /\ rets # <<>> /\ AnsweredOk(rets[1])) =>
                  /\ Len(wire) = 1
                  /\ wire[1].body = calls[1]
                  /\ opRet.value # Nil
                  /\ opRet.value = rets[1].read.env
                  /\ opRet.err = Nil
       /\ (pc = "done" /\ opRet.value # Nil /\ opRet.err = Nil) =>
            (0 <= op.verbosity /\ op.verbosity <= 3)

\* C15 witness: GetBlock(hash, 3) returned the daemon's response
C15_Witness ==
    /\ pc = "done"
    /\ op.name = "GetBlock"
    /\ op.block = HashA
    /\ op.verbosity = 3
    /\ Len(wire) = 1
    /\ calls[1].Params = <<[t |-> "str", v |-> HashA], [t |-> "int", v |-> 3]>>
    /\ opRet.value # Nil
    /\ opRet.err = Nil

---------------------------------------------------------------------------
(* Claims about the contextual warning (checked under SpecNorm)            *)

\* the warning a call of the normalizer carries: GetBlockFilter's own, or the caller's
FilterWarningText ==
    <<"m","a","y","b","e"," ","i","t","'","s"," ","n","e","e","d","e","d"," ","t","o"," ","a","c","t","i","v","a","t","e"," ","c","o","m","p","a","c","t"," ","b","l","o","c","k"," ","f","i","l","t","e","r"," ","s","t","a","r","t","i","n","g"," ","b","i","t","c","o","i","n","d"," ","w","i","t","h"," ","t","h","e"," ","-","b","l","o","c","k","f","i","l","t","e","r","i","n","d","e","x","=","b","a","s","i","c","/","-","b","l","o","c","k","f","i","l","t","e","r","i","n","d","e","x"," ","f","l","a","g">>
SuppliedWarning ==
    IF nOut.fn = "GetBlockFilter" THEN <<FilterWarningText>> ELSE nWarn
MessageExtracted ==
    HasPrefix(nErr.text, <<"m", "a", "p">>)
    /\ <<"m","e","s","s","a","g","e">> \in DOMAIN stringToMap(nErr.text)

\* C17: when the normalizer extracts a message m, the returned error text is
\* lower(m) followed by " (w)" for a supplied warning w and lower(m) alone without
\* one; an error returned unchanged never carries the warning; GetBlockFilter
\* always supplies its block-filter-index warning.
C17_WarningSuffix ==
    (nOut # NoCall /\ nOut.fn \in {"JsonResult", "ArrayResult", "GetBlockFilter"})
    => /\ MessageExtracted =>
            nOut.ret.err.text =
                ToLower(stringToMap(nErr.text)[<<"m","e","s","s","a","g","e">>])
                \o (IF SuppliedWarning = <<>> THEN <<>>
                    ELSE <<" ", "(">> \o SuppliedWarning[1] \o <<")">>)
       /\ ~MessageExtracted => nOut.ret.err = nErr

\* C17 witness: GetBlockFilter turned map[code:5 message:B B] into "b b" followed
\* by its warning in parentheses
C17_Witness ==
    /\ nOut # NoCall
    /\ nOut.fn = "GetBlockFilter"
    /\ nErr.text = ShapedText(<<"5">>, <<"B", " ", "B">>)
    /\ nOut.ret.err.text = <<"b", " ", "b", " ", "(">> \o FilterWarningText \o <<")">>

IsBearerHeader(h) ==
    "text" \in DOMAIN h /\ HasPrefix(h.text, <<"B", "e", "a", "r", "e", "r", " ">>)
IsBasicHeader(h) == "scheme" \in DOMAIN h /\ h.scheme = "Basic"
IsJsonContentType(h) ==
    "text" \in DOMAIN h
    /\ h.text = <<"a", "p", "p", "l", "i", "c", "a", "t", "i", "o", "n", "/", "j", "s", "o", "n">>

FailedRead(read) ==
    read # Nil /\ (~IsReply(read) \/ read.status # StatusOK \/ read.env = Nil)

ValidMemoryMode(m) ==
    m = <<"s","t","a","t","s">> \/ m = <<"m","a","l","l","o","c","i","n","f","o">>
RunningGetMemoryInfo == op # NoCall /\ op.name = "GetMemoryInfo"

\* C22: GetMemoryInfo called with a mode that is neither "stats" nor "mallocinfo"
\* returns an error; a valid mode is the one positional parameter of the
\* getmemoryinfo request.
C22_InvalidModeRejected ==
    RunningGetMemoryInfo =>
       /\ (Len(op.mode) > 0 /\ ~ValidMemoryMode(op.mode[1]) /\ pc = "done")
             => (opRet.value = Nil /\ opRet.err # Nil)
       /\ (Len(op.mode) > 0 /\ ValidMemoryMode(op.mode[1]))
             => \A i \in 1..Len(calls) :
                   /\ calls[i].Method = "getmemoryinfo"
                   /\ Len(calls[i].Params) = 1
                   /\ calls[i].Params[1].t = "str"
                   /\ calls[i].Params[1].v = op.mode[1]

\* C23: every getblockfilter request GetBlockFilter sends has the params
\* [hash, "basic"]: the resolved 64-character hash and the default filter type.
C23_FilterTypeBasic ==
    \A i \in 1..Len(calls) :
        calls[i].Method = "getblockfilter" =>
           /\ Len(calls[i].Params) = 2
           /\ calls[i].Params[1].t = "str" /\ IsHex64(calls[i].Params[1].v)
           /\ calls[i].Params[2].t = "str" /\ calls[i].Params[2].v = <<"b", "a", "s", "i", "c">>

\* C25: every response a Do call returns has the id of the request that call sent.
C25_ResponseIdMatches ==
    \A i \in 1..Len(rets) :
        rets[i].ret.resp # Nil => rets[i].ret.resp.ID = calls[i].ID

JsonResultOps == {"GetBlockStats", "GetBlockFilter", "GetMemoryInfo", "LoggingProcedure"}
ArrayResultOps == {"ListBanned"}
\* the operation returned what JsonResult or ArrayResult made of its own Do call
ReturnedFromDo ==
    /\ pc = "done" /\ phase = "main" /\ doRet # Nil
    /\ op # NoCall /\ op.name \in JsonResultOps \cup ArrayResultOps

\* C26: whatever pair Do returned, JsonResult and ArrayResult return exactly one of
\* a value and an error; from a response, the value decoded from its result (a Json
\* from JsonResult, an Array from ArrayResult) or the decoding error; from a nil
\* response, no value and an error, the one Do returned or the normalized one.
C26_ValueXorError ==
    ReturnedFromDo =>
       /\ (opRet.value = Nil) # (opRet.err = Nil)
       /\ doRet.resp # Nil =>
             /\ opRet.value # Nil =>
                   /\ opRet.value.of = doRet.resp.Result
                   /\ opRet.value.type = (IF op.name \in ArrayResultOps THEN "Array" ELSE "Json")
             /\ opRet.err # Nil => opRet.err.src \in {"UnmarshalResult", "UnmarshalArray"}
       /\ doRet.resp = Nil =>
             /\ opRet.value = Nil
             /\ opRet.err # Nil
             /\ (opRet.err = doRet.err \/ opRet.err.src = "handle")

\* C26 witness: ListBanned got a response whose result is a number, and ArrayResult
\* returned the decoding error and no value
C26_Witness ==
    /\ ReturnedFromDo
    /\ op.name = "ListBanned"
    /\ doRet.resp # Nil /\ doRet.resp.Result.k = "num"
    /\ opRet.value = Nil
    /\ opRet.err # Nil /\ opRet.err.src = "UnmarshalArray"

\* C27: a GetBlock whose verbosity is outside 0..3 never has a Do call or a request
\* on the wire, whatever its block identifier, and returns the verbosity error.
C27_NoIoOnBadVerbosity ==
    (op # NoCall /\ op.name = "GetBlock" /\ (op.verbosity < 0 \/ op.verbosity > 3)) =>
       /\ calls = <<>>
       /\ wire = <<>>
       /\ pc = "done" => (opRet.value = Nil /\ opRet.err = VerbosityFrom(op.verbosity).err)

\* C29: in every logging request the include list, when it is sent, is the first
\* positional parameter and the exclude list, when it is sent, is the second.
C29_LoggingPositions ==
    (op # NoCall /\ op.name = "LoggingProcedure") =>
       \A i \in 1..Len(calls) :
          /\ calls[i].Method = "logging"
          /\ Len(op.include) > 0 =>
                /\ Len(calls[i].Params) >= 1
                /\ calls[i].Params[1].t = "list" /\ calls[i].Params[1].v = op.include
          /\ Len(op.exclude) > 0 =>
                /\ Len(calls[i].Params) >= 2
                /\ calls[i].Params[2].t = "list" /\ calls[i].Params[2].v = op.exclude

RunningBan == op # NoCall /\ op.name \in {"SetBan", "Unban"}
BanSubnet == IF op.name = "SetBan" THEN op.ban.Subnet ELSE op.subnet
IsBanRequest(r) ==
    /\ r.Method = "setban"
    /\ Len(r.Params) = (IF op.name = "SetBan" THEN 4 ELSE 2)
    /\ r.Params[1].t = "str" /\ r.Params[1].v = BanSubnet
    /\ r.Params[2].t = "str"
    /\ r.Params[2].v = (IF op.name = "SetBan" THEN <<"a","d","d">> ELSE <<"r","e","m","o","v","e">>)
    /\ op.name = "SetBan" =>
          /\ r.Params[3].t = "int" /\ r.Params[3].v = op.ban.Time
          /\ r.Params[4].t = "bool" /\ r.Params[4].v = op.ban.Absolute
SubnetErrorReturned ==
    /\ pc = "done"
    /\ opRet.value = Nil
    /\ opRet.err # Nil
    /\ opRet.err.text = <<"b","a","n","'","s"," ","s","u","b","n","e","t"," ","m","u","s","t"," ",
                          "b","e"," ","p","r","o","v","i","d","e","d">>

---------------------------------------------------------------------------
(* Claims about the request envelope (checked under SpecPure)              *)

\* the same JSON value: a number by its value, a list by its elements in order
SameJsonValue(p, q) ==
    CASE p.t = "str" -> q.t = "str" /\ q.v = p.v
      [] p.t = "int" -> q.t \in {"int", "float64"} /\ q.v = p.v
      [] p.t = "bool" -> q.t = "bool" /\ q.v = p.v
      [] p.t = "list" -> q.t \in {"list", "[]any"} /\ q.v = p.v
      [] OTHER -> FALSE
SameRequest(r, q) ==
    /\ q.ID = r.ID
    /\ q.Version = r.Version
    /\ q.Method = r.Method
    /\ Len(q.Params) = Len(r.Params)
    /\ \A i \in 1..Len(r.Params) : SameJsonValue(r.Params[i], q.Params[i])
ValidUtf8(str) == \A i \in 1..Len(str) : str[i] # "xFF"
RepresentableParam(p) ==
    CASE p.t = "str" -> ValidUtf8(p.v)
      [] p.t = "list" -> \A i \in 1..Len(p.v) : ValidUtf8(p.v[i])
      [] p.t \in {"int", "bool"} -> TRUE
      [] OTHER -> FALSE

IsHttpUrl(uri) ==
    \/ HasPrefix(uri, <<"h","t","t","p",":","/","/">>) /\ Len(uri) > 7
    \/ HasPrefix(uri, <<"h","t","t","p","s",":","/","/">>) /\ Len(uri) > 8

\* C24: New returns a client, holding exactly the URL and the Authentication given,
\* if and only if the URL is a non-empty HTTP or HTTPS URL and the Authentication
\* passes Validate; otherwise it returns a nil client and an error.
C24_NewAcceptsHttpOnly ==
    (pOut # NoCall /\ pOut.fn = "New") =>
       IF IsHttpUrl(pIn.v.uri) /\ Validate(pIn.v.authentication) = Nil
       THEN /\ pOut.ret.err = Nil
            /\ pOut.ret.client # Nil
            /\ pOut.ret.client.URL = pIn.v.uri
            /\ pOut.ret.client.Authentication = pIn.v.authentication
       ELSE pOut.ret.client = Nil /\ pOut.ret.err # Nil

---------------------------------------------------------------------------
(* Claims about concurrent use (checked under SpecConc)                    *)

DoReturned(g) == gpc[g] = "ret"

\* the outcome of g's call is a matter of g's request and of what g read
OwnOutcome(g) ==
    DoReturned(g)
    => /\ (gread[g] = Nil) => (gret[g].resp = Nil /\ gret[g].err # Nil)
       /\ (gread[g] # Nil /\ IsReply(gread[g]) /\ gret[g].resp # Nil) => gret[g].resp = gread[g].env
       /\ \A h \in Goroutines :
            (DoReturned(h) /\ greq[h] = greq[g] /\ gread[h] = gread[g]) => gret[h] = gret[g]

\* C19: no step of Do, Validate, Setup or GetCredentials changes the client's URL
\* or Authentication; under every interleaving of calls on one client a call that
\* returned has the outcome its own request and its own reply give, and a step of
\* another call never changes it.
C19_ConcurrentUseSafe ==
    /\ [][Client' = Client]_vars
    /\ [](\A g \in Goroutines : OwnOutcome(g))
    /\ [][\A g \in Goroutines : (DoReturned(g) /\ gpc'[g] = "ret") => gret'[g] = gret[g]]_vars

\* C19 witness: two calls of the same request returned, one with the envelope of
\* its own 200 reply, the other with the error of its own 401 reply
C19_Witness ==
    /\ DoReturned(1) /\ DoReturned(2)
    /\ greq[1] = greq[2]
    /\ IsReply(gread[1]) /\ IsReply(gread[2])
    /\ gread[1].status = StatusOK /\ gread[2].status = 401
    /\ gret[1].resp # Nil /\ gret[1].resp = gread[1].env
    /\ gret[2].resp = Nil /\ gret[2].err # Nil

====
